---- MODULE Spec2Model ----
(***************************************************************************)
(* pi-diff-ui: the inline diff view (InlineDiffView), the snapshot ledger  *)
(* (DiffState) and the review session (DiffReviewModal) as state machines. *)
(* Indices are 0-based as in the TypeScript source; a TLA+ sequence s is   *)
(* read at the 0-based index i as s[i + 1].  A string is a sequence of     *)
(* one-character strings; the escape character \x1b is the token ESC.      *)
(***************************************************************************)
EXTENDS Integers, Sequences, FiniteSets, TLC

VARIABLES
  \* InlineDiffView
  diff,             \* this.diff: [filePath, hunks]
  highlightFn,      \* this.highlightFn: "none" (undefined) or "sgr"
  renderedLines,    \* this.renderedLines: sequence of [content, rawContent]
  lineToHunkIndex,  \* this._lineToHunkIndex: hunk index per row, -1 = separator
  scrollOffset,     \* this._scrollOffset
  cursorLine,       \* this._cursorLine
  visualMode,       \* this._visualMode
  visualAnchor,     \* this._visualAnchor
  viewOp,           \* the last InlineDiffView call: its name, arguments and result
  \* DiffState
  snapshots,        \* this.snapshots: the Map, as its entries in insertion order
  \* DiffReviewModal
  selectedIndex,    \* this._selectedIndex
  fileList,         \* this._fileList
  filePickerOpen,   \* this._filePickerOpen
  filePickerIndex,  \* this._filePickerIndex
  modalOp,          \* the last DiffState / DiffReviewModal call and its result
  \* the terminal
  tuiHeight,        \* tui.height, Undef when the terminal gives none
  \* the list picker (createPickerHandler)
  items,            \* items: the live list of [id, description]
  cursorIndex,      \* cursorIndex
  pickerScrollOffset, \* the picker's scrollOffset
  hasOnDismiss,     \* whether callbacks.onDismiss is supplied
  pickerOp,         \* the last picker call: its token, result and callbacks
  \* the review overlay (createOverlayHandler)
  viewController,   \* whether viewController is a view (TRUE) or null (FALSE)
  overlayOp         \* the last overlay call: its token, rows and callbacks

viewVars == <<diff, highlightFn, renderedLines, lineToHunkIndex, scrollOffset,
              cursorLine, visualMode, visualAnchor, viewOp>>
modalVars == <<snapshots, selectedIndex, fileList, filePickerOpen,
               filePickerIndex, modalOp>>
pickerVars == <<items, cursorIndex, pickerScrollOffset, hasOnDismiss, pickerOp>>
overlayVars == <<viewController, overlayOp>>
uiVars == <<tuiHeight, items, cursorIndex, pickerScrollOffset, hasOnDismiss,
            pickerOp, viewController, overlayOp>>
vars == <<diff, highlightFn, renderedLines, lineToHunkIndex, scrollOffset,
          cursorLine, visualMode, visualAnchor, viewOp, snapshots,
          selectedIndex, fileList, filePickerOpen, filePickerIndex, modalOp,
          tuiHeight, items, cursorIndex, pickerScrollOffset, hasOnDismiss,
          pickerOp, viewController, overlayOp>>

----------------------------------------------------------------------------
(* Bounds of the model *)

\* largest |delta| / |lines| / |line| argument of the cursor and scroll calls
MaxDelta == 7
\* the guards keep |scrollOffset| within this (scrollUp(-n) and scrollDown(-n)
\* are unbounded in the code)
MaxScroll == 6
\* render is called with visibleHeight in 0..MaxHeight and width in 0..MaxWidth
MaxHeight == 4
MaxWidth == 8
\* the generated diffs of SpecLoad have up to MaxHunks records, with line
\* numbers in 1..MaxLineNo
MaxHunks == 3
MaxLineNo == 3

----------------------------------------------------------------------------
(* JavaScript helpers *)

Min(a, b) == IF a <= b THEN a ELSE b
Max(a, b) == IF a >= b THEN a ELSE b

\* Array.prototype.slice(start, end) on a sequence, negative indices counted
\* from the end as JavaScript does
Slice(s, start, end) ==
  LET n == Len(s)
      from == IF start < 0 THEN Max(n + start, 0) ELSE Min(start, n)
      to == IF end < 0 THEN Max(n + end, 0) ELSE Min(end, n)
  IN IF to <= from THEN <<>> ELSE SubSeq(s, from + 1, to)

ESC == "ESC"
Digits == <<"0", "1", "2", "3", "4", "5", "6", "7", "8", "9">>

\* Number.prototype.toString for 0..99
NumToString(n) ==
  IF n < 10 THEN <<Digits[n + 1]>>
  ELSE <<Digits[(n \div 10) + 1], Digits[(n % 10) + 1]>>

\* String.prototype.padStart(width, ' ')
PadStart(s, width) ==
  [i \in 1..(Max(width - Len(s), 0)) |-> " "] \o s

\* String.prototype.endsWith
EndsWith(s, suffix) ==
  /\ Len(s) >= Len(suffix)
  /\ SubSeq(s, Len(s) - Len(suffix) + 1, Len(s)) = suffix

\* String.prototype.includes
Includes(s, part) ==
  \E i \in 1..(Len(s) - Len(part) + 1) : SubSeq(s, i, i + Len(part) - 1) = part

Sgr(code) == <<ESC, "[">> \o code \o <<"m">>
RESET == Sgr(<<"0">>)
GREEN == Sgr(<<"3", "2">>)
RED == Sgr(<<"3", "1">>)
DIM == Sgr(<<"2">>)
BLUE == Sgr(<<"3", "4">>)
ANSI_HIGHLIGHT_BG == Sgr(<<"4", "8", ";", "5", ";", "2", "3", "6">>)
ANSI_HIGHLIGHT_BG_OFF == Sgr(<<"4", "9">>)

----------------------------------------------------------------------------
(* DiffLine and FileDiff (diff-engine.ts) *)

\* an optional line number that is undefined
Undef == -1

DiffLine(type, content, old, new) ==
  [type |-> type, content |-> content, oldLineNumber |-> old, newLineNumber |-> new]

FileDiff(path, hunks) == [filePath |-> path, hunks |-> hunks]

\* hunk.newLineNumber ?? hunk.oldLineNumber
AnchorOf(hunk) ==
  IF hunk.newLineNumber # Undef THEN hunk.newLineNumber ELSE hunk.oldLineNumber

----------------------------------------------------------------------------
(* InlineDiffView: building the rows *)

\* the injected highlight function: absent, or one that colours the text
HighlightFn(mode, code, filePath) ==
  IF mode = "sgr" /\ Len(code) > 0 THEN BLUE \o code \o RESET ELSE code

\* getMaxLineNumber
RECURSIVE MaxLineLoop(_, _, _)
MaxLineLoop(hunks, i, max) ==
  IF i >= Len(hunks) THEN max
  ELSE LET a == AnchorOf(hunks[i + 1])
           lineNum == IF a # Undef THEN a ELSE 0
       IN MaxLineLoop(hunks, i + 1, Max(max, lineNum))

GetMaxLineNumber(hunks) == MaxLineLoop(hunks, 0, 0)

\* renderHunk
RenderHunk(hunk, lineNumberWidth, mode, filePath) ==
  LET a == AnchorOf(hunk)
      lineNumber == IF a # Undef THEN a ELSE 0
      lineNumStr == PadStart(NumToString(lineNumber), lineNumberWidth)
      prefix == CASE hunk.type = "added" -> "+"
                  [] hunk.type = "removed" -> "-"
                  [] OTHER -> " "
      color == CASE hunk.type = "added" -> GREEN
                 [] hunk.type = "removed" -> RED
                 [] OTHER -> DIM
      content == IF hunk.type = "context"
                 THEN HighlightFn(mode, hunk.content, filePath)
                 ELSE hunk.content
  IN [content |-> color \o lineNumStr \o <<" ", prefix, " ">> \o content \o RESET,
      rawContent |-> lineNumStr \o <<" ", prefix, " ">> \o hunk.content]

\* createSeparatorLine (each "." stands for one middle dot of the marker)
CreateSeparatorLine ==
  [content |-> DIM \o <<".", ".", ".">> \o RESET, rawContent |-> <<".", ".", ".">>]

\* a mutation of NeedsSeparator: any non-consecutive pair gets a separator
NeedsSeparator_NotConsecutive(previousLineNumber, currentLineNumber) ==
  /\ previousLineNumber # Undef
  /\ currentLineNumber # Undef
  /\ currentLineNumber # previousLineNumber + 1

\* a mutation of NeedsSeparator: every step up in the line numbers is a gap
NeedsSeparator_AnyIncrease(previousLineNumber, currentLineNumber) ==
  /\ previousLineNumber # Undef
  /\ currentLineNumber # Undef
  /\ currentLineNumber > previousLineNumber

\* the gap test of buildRenderedLines
NeedsSeparator(previousLineNumber, currentLineNumber) ==
  /\ previousLineNumber # Undef
  /\ currentLineNumber # Undef
  /\ currentLineNumber > previousLineNumber + 1

\* the loop of buildRenderedLines
RECURSIVE BuildLoop(_, _, _, _, _, _)
BuildLoop(d, i, previousLineNumber, lines, map, mode) ==
  IF i >= Len(d.hunks) THEN [renderedLines |-> lines, lineToHunkIndex |-> map]
  ELSE
    LET hunk == d.hunks[i + 1]
        currentLineNumber == AnchorOf(hunk)
        lineNumberWidth == Len(NumToString(GetMaxLineNumber(d.hunks)))
        sep == NeedsSeparator(previousLineNumber, currentLineNumber)
        lines1 == IF sep THEN Append(lines, CreateSeparatorLine) ELSE lines
        map1 == IF sep THEN Append(map, -1) ELSE map
    IN BuildLoop(d, i + 1,
                 IF currentLineNumber # Undef THEN currentLineNumber
                 ELSE previousLineNumber,
                 Append(lines1, RenderHunk(hunk, lineNumberWidth, mode, d.filePath)),
                 Append(map1, i),
                 mode)

\* buildRenderedLines
BuildRenderedLines(d, mode) == BuildLoop(d, 0, Undef, <<>>, <<>>, mode)

----------------------------------------------------------------------------
(* InlineDiffView: truncation and rendering *)

\* a mutation of WidthReached: one visible character too many is let through
WidthReached_OffByOne(visibleLength, width) == visibleLength > width

\* the stop test of truncateToWidth
WidthReached(visibleLength, width) == visibleLength >= width

\* the character loop of truncateToWidth
RECURSIVE TruncLoop(_, _, _, _, _, _, _)
TruncLoop(line, i, width, visibleLength, result, inEscape, escapeSequence) ==
  IF i >= Len(line) THEN result
  ELSE
    LET char == line[i + 1] IN
    IF char = ESC
    THEN TruncLoop(line, i + 1, width, visibleLength, result, TRUE, <<char>>)
    ELSE IF inEscape
    THEN IF char = "m"
         THEN TruncLoop(line, i + 1, width, visibleLength,
                        result \o escapeSequence \o <<char>>, FALSE, <<>>)
         ELSE TruncLoop(line, i + 1, width, visibleLength, result, TRUE,
                        escapeSequence \o <<char>>)
    ELSE IF WidthReached(visibleLength, width)
    THEN result
    ELSE TruncLoop(line, i + 1, width, visibleLength + 1,
                   result \o <<char>>, FALSE, <<>>)

\* truncateToWidth
TruncateToWidth(line, width) ==
  LET result == TruncLoop(line, 0, width, 0, <<>>, FALSE, <<>>)
  IN IF Includes(result, <<ESC, "[">>) /\ ~EndsWith(result, RESET)
     THEN result \o RESET
     ELSE result

\* the cursor / visual-selection highlight of render
HighlightRow(content) ==
  ANSI_HIGHLIGHT_BG \o
    (IF EndsWith(content, RESET)
     THEN SubSeq(content, 1, Len(content) - Len(RESET))
            \o ANSI_HIGHLIGHT_BG_OFF \o RESET
     ELSE content)

\* a mutation of GetVisualRange: [anchor, cursor] in the order they were set
GetVisualRange_AnchorFirst(anchor, cursor) == <<anchor, cursor>>

\* getVisualRange
GetVisualRange(anchor, cursor) == <<Min(anchor, cursor), Max(anchor, cursor)>>

\* the scroll correction of render: auto-scroll, then the clamp to maxOffset
RenderOffset(cursor, offset, visibleHeight, total) ==
  LET o1 == IF cursor >= offset + visibleHeight THEN cursor - visibleHeight + 1
            ELSE offset
      o2 == IF cursor < o1 THEN cursor ELSE o1
      maxOffset == Max(0, total - visibleHeight)
  IN Min(o2, maxOffset)

\* whether render highlights the row at lineIndex
IsHighlighted(lineIndex, cursor, visual, anchor) ==
  LET range == GetVisualRange(anchor, cursor)
      inVisualRange == visual /\ lineIndex >= range[1] /\ lineIndex <= range[2]
  IN inVisualRange \/ lineIndex = cursor

\* the rows render returns for the corrected offset
RenderRows(lines, offset, width, visibleHeight, cursor, visual, anchor) ==
  LET endIndex == Min(offset + visibleHeight, Len(lines))
      visibleLines == Slice(lines, offset, endIndex)
  IN [index \in 1..Len(visibleLines) |->
        LET lineIndex == offset + (index - 1)
            content == IF IsHighlighted(lineIndex, cursor, visual, anchor)
                       THEN HighlightRow(visibleLines[index].content)
                       ELSE visibleLines[index].content
        IN TruncateToWidth(content, width)]

----------------------------------------------------------------------------
(* InlineDiffView: the operations *)

ViewCall(op, arg, width, height, out) ==
  [op |-> op, arg |-> arg, width |-> width, height |-> height, out |-> out]

TotalLines == Len(renderedLines)

\* setCursor's clamp
ClampCursor(line, total) ==
  LET maxLine == Max(0, total - 1) IN Max(0, Min(line, maxLine))

\* new InlineDiffView(d, mode)
Constructed(d, mode) ==
  LET built == BuildRenderedLines(d, mode) IN
  /\ diff = d
  /\ highlightFn = mode
  /\ renderedLines = built.renderedLines
  /\ lineToHunkIndex = built.lineToHunkIndex
  /\ scrollOffset = 0
  /\ cursorLine = 0
  /\ visualMode = FALSE
  /\ visualAnchor = 0
  /\ viewOp = ViewCall("new", 0, 0, 0, <<>>)

\* a mutation of SetDiff: the visual selection survives the load
SetDiff_KeepVisualMode(d) ==
  LET built == BuildRenderedLines(d, highlightFn) IN
  /\ diff' = d
  /\ scrollOffset' = 0
  /\ cursorLine' = 0
  /\ renderedLines' = built.renderedLines
  /\ lineToHunkIndex' = built.lineToHunkIndex
  /\ viewOp' = ViewCall("setDiff", 0, 0, 0, <<>>)
  /\ UNCHANGED <<highlightFn, visualMode, visualAnchor>>

SetDiff(d) ==
  LET built == BuildRenderedLines(d, highlightFn) IN
  /\ diff' = d
  /\ scrollOffset' = 0
  /\ cursorLine' = 0
  /\ visualMode' = FALSE
  /\ renderedLines' = built.renderedLines
  /\ lineToHunkIndex' = built.lineToHunkIndex
  /\ viewOp' = ViewCall("setDiff", 0, 0, 0, <<>>)
  /\ UNCHANGED <<highlightFn, visualAnchor>>

MoveCursor(delta) ==
  /\ cursorLine' = ClampCursor(cursorLine + delta, TotalLines)
  /\ viewOp' = ViewCall("moveCursor", delta, 0, 0, <<>>)
  /\ UNCHANGED <<diff, highlightFn, renderedLines, lineToHunkIndex, scrollOffset,
                 visualMode, visualAnchor>>

SetCursor(line) ==
  /\ cursorLine' = ClampCursor(line, TotalLines)
  /\ viewOp' = ViewCall("setCursor", line, 0, 0, <<>>)
  /\ UNCHANGED <<diff, highlightFn, renderedLines, lineToHunkIndex, scrollOffset,
                 visualMode, visualAnchor>>

ScrollUp(lines) ==
  /\ lines >= 0 \/ Max(0, scrollOffset - lines) <= MaxScroll
  /\ scrollOffset' = Max(0, scrollOffset - lines)
  /\ cursorLine' = ClampCursor(cursorLine + (0 - lines), TotalLines)
  /\ viewOp' = ViewCall("scrollUp", lines, 0, 0, <<>>)
  /\ UNCHANGED <<diff, highlightFn, renderedLines, lineToHunkIndex, visualMode,
                 visualAnchor>>

ScrollDown(lines) ==
  /\ Min(Max(0, TotalLines), scrollOffset + lines) >= 0 - MaxScroll
  /\ scrollOffset' = Min(Max(0, TotalLines), scrollOffset + lines)
  /\ cursorLine' = ClampCursor(cursorLine + lines, TotalLines)
  /\ viewOp' = ViewCall("scrollDown", lines, 0, 0, <<>>)
  /\ UNCHANGED <<diff, highlightFn, renderedLines, lineToHunkIndex, visualMode,
                 visualAnchor>>

ScrollToTop ==
  /\ scrollOffset' = 0
  /\ cursorLine' = 0
  /\ viewOp' = ViewCall("scrollToTop", 0, 0, 0, <<>>)
  /\ UNCHANGED <<diff, highlightFn, renderedLines, lineToHunkIndex, visualMode,
                 visualAnchor>>

ScrollToBottom ==
  /\ scrollOffset' = Max(0, TotalLines)
  /\ cursorLine' = Max(0, TotalLines - 1)
  /\ viewOp' = ViewCall("scrollToBottom", 0, 0, 0, <<>>)
  /\ UNCHANGED <<diff, highlightFn, renderedLines, lineToHunkIndex, visualMode,
                 visualAnchor>>

EnterVisualMode ==
  /\ visualMode' = TRUE
  /\ visualAnchor' = cursorLine
  /\ viewOp' = ViewCall("enterVisualMode", 0, 0, 0, <<>>)
  /\ UNCHANGED <<diff, highlightFn, renderedLines, lineToHunkIndex, scrollOffset,
                 cursorLine>>

\* a mutation of ExitVisualMode: the anchor is forgotten with the mode
ExitVisualMode_ClearAnchor ==
  /\ visualMode' = FALSE
  /\ visualAnchor' = 0
  /\ viewOp' = ViewCall("exitVisualMode", 0, 0, 0, <<>>)
  /\ UNCHANGED <<diff, highlightFn, renderedLines, lineToHunkIndex, scrollOffset,
                 cursorLine>>

ExitVisualMode ==
  /\ visualMode' = FALSE
  /\ viewOp' = ViewCall("exitVisualMode", 0, 0, 0, <<>>)
  /\ UNCHANGED <<diff, highlightFn, renderedLines, lineToHunkIndex, scrollOffset,
                 cursorLine, visualAnchor>>

Render(width, visibleHeight) ==
  LET offset == RenderOffset(cursorLine, scrollOffset, visibleHeight, TotalLines) IN
  /\ scrollOffset' = offset
  /\ viewOp' = ViewCall("render", 0, width, visibleHeight,
                        RenderRows(renderedLines, offset, width, visibleHeight,
                                   cursorLine, visualMode, visualAnchor))
  /\ UNCHANGED <<diff, highlightFn, renderedLines, lineToHunkIndex, cursorLine,
                 visualMode, visualAnchor>>

----------------------------------------------------------------------------
(* The diffs the view is loaded with *)

emptyDiff == FileDiff("empty.ts", <<>>)

\* one hunk with a replaced line: no gap in the line numbers
simpleDiff ==
  FileDiff("test.ts",
    << DiffLine("context", <<"a", "b">>, 1, 1),
       DiffLine("removed", <<"c">>, 2, Undef),
       DiffLine("added", <<"d", "e">>, Undef, 2),
       DiffLine("added", <<"f">>, Undef, 3),
       DiffLine("context", <<"g">>, 3, 4) >>)

\* two hunks, lines 1-2 and 10-11; the first line's text carries its own
\* colour sequence and the second record has no line numbers
gapDiff ==
  FileDiff("gap.ts",
    << DiffLine("added", <<"x">> \o RED \o <<"y", "z">> \o RESET, Undef, 1),
       DiffLine("context", <<>>, Undef, Undef),
       DiffLine("context", <<"c">>, 10, 10),
       DiffLine("removed", <<"m", "m">>, 11, Undef) >>)

ViewDiffs == {emptyDiff, simpleDiff, gapDiff}

DeltaArgs == {0 - MaxDelta, -1, 1, MaxDelta}

\* the records the generated diffs are made of
LineChoices ==
  {DiffLine("added", <<"a">>, Undef, n) : n \in 1..MaxLineNo}
    \cup {DiffLine("removed", <<"r">>, n, Undef) : n \in 1..MaxLineNo}
    \cup {DiffLine("context", <<"c">>, n, n) : n \in 1..MaxLineNo}
    \cup {DiffLine("context", <<"u">>, Undef, Undef)}

----------------------------------------------------------------------------
(* DiffReviewModal over an empty DiffState: the state the session part is   *)
(* in while the view is exercised alone                                      *)

\* the last call: its name, for dismissSelected the path it dismissed, and the
\* value it returned
ModalCall(op, path, result) == [op |-> op, path |-> path, result |-> result]

\* no picker: the state the list picker's part is in while none is open
PickerIdle ==
  /\ items = <<>>
  /\ cursorIndex = 0
  /\ pickerScrollOffset = 0
  /\ hasOnDismiss = FALSE
  /\ pickerOp = [op |-> "none"]

\* no overlay: the state the overlay's part is in while none is open
OverlayIdle ==
  /\ viewController = FALSE
  /\ overlayOp = [op |-> "none"]

\* neither a picker nor an overlay, on a terminal that gives no height
UiIdle ==
  /\ tuiHeight = Undef
  /\ PickerIdle
  /\ OverlayIdle

ModalIdle ==
  /\ snapshots = <<>>
  /\ selectedIndex = 0
  /\ fileList = <<>>
  /\ filePickerOpen = FALSE
  /\ filePickerIndex = 0
  /\ modalOp = ModalCall("new", "", FALSE)

---------------------------------------------------------------------------------------------------------------------------------------------------
(* SpecView: one InlineDiffView driven through its public operations, with  *)
(* the highlight function the overlay always passes; rows are rendered at   *)
(* full width                                                                *)

InitView ==
  /\ \E d \in ViewDiffs : Constructed(d, "sgr")
  /\ ModalIdle
  /\ UiIdle

NextView ==
  /\ \/ \E d \in ViewDiffs : SetDiff(d)
     \/ \E delta \in DeltaArgs : MoveCursor(delta)
     \/ \E line \in DeltaArgs : SetCursor(line)
     \/ \E lines \in DeltaArgs : ScrollUp(lines)
     \/ \E lines \in DeltaArgs : ScrollDown(lines)
     \/ ScrollToTop
     \/ ScrollToBottom
     \/ EnterVisualMode
     \/ ExitVisualMode
     \/ \E visibleHeight \in 0..MaxHeight : Render(MaxWidth, visibleHeight)
  /\ UNCHANGED modalVars
  /\ UNCHANGED uiVars

SpecView == InitView /\ [][NextView]_vars

----------------------------------------------------------------------------
(* SpecTrunc: the rows of a view rendered at every width, plain, under the  *)
(* cursor and inside a visual selection                                      *)

InitTrunc ==
  /\ \E d \in ViewDiffs : \E mode \in {"none", "sgr"} : Constructed(d, mode)
  /\ ModalIdle
  /\ UiIdle

NextTrunc ==
  /\ \/ MoveCursor(1)
     \/ MoveCursor(-1)
     \/ EnterVisualMode
     \/ ExitVisualMode
     \/ \E width \in 0..MaxWidth : Render(width, MaxHeight)
  /\ UNCHANGED modalVars
  /\ UNCHANGED uiVars

SpecTrunc == InitTrunc /\ [][NextTrunc]_vars

-----
(* SpecLoad: a view loaded, record by record, with every sequence of up to  *)
(* MaxHunks records                                                          *)

\* the diffs that extend the loaded one by one more record
Extensions(d) ==
  IF Len(d.hunks) >= MaxHunks THEN {}
  ELSE {FileDiff("gen.ts", Append(d.hunks, line)) : line \in LineChoices}

InitLoad ==
  /\ Constructed(FileDiff("gen.ts", <<>>), "none")
  /\ ModalIdle
  /\ UiIdle

NextLoad ==
  /\ \/ \E d \in Extensions(diff) : SetDiff(d)
     \/ MoveCursor(1)
     \/ MoveCursor(-1)
  /\ UNCHANGED modalVars
  /\ UNCHANGED uiVars

SpecLoad == InitLoad /\ [][NextLoad]_vars

----------------------------------------------------------------------------
(* Measuring a rendered row: stripAnsi of overlay.ts, the pattern           *)
(* /\x1b\[[0-9;]*m/g the tests count visible characters with                *)

IsSgrParam(c) == c \in {"0", "1", "2", "3", "4", "5", "6", "7", "8", "9", ";"}

\* the position of the "m" ending the parameters that start at j, 0 if none
RECURSIVE SgrEnd(_, _)
SgrEnd(s, j) ==
  IF j > Len(s) THEN 0
  ELSE IF s[j] = "m" THEN j
  ELSE IF IsSgrParam(s[j]) THEN SgrEnd(s, j + 1)
  ELSE 0

RECURSIVE StripAnsiFrom(_, _)
StripAnsiFrom(s, i) ==
  IF i > Len(s) THEN <<>>
  ELSE IF s[i] = ESC /\ i + 1 <= Len(s) /\ s[i + 1] = "[" /\ SgrEnd(s, i + 2) > 0
  THEN StripAnsiFrom(s, SgrEnd(s, i + 2) + 1)
  ELSE <<s[i]>> \o StripAnsiFrom(s, i + 1)

StripAnsi(s) == StripAnsiFrom(s, 1)

----------------------------------------------------------------------------
(* Claims about InlineDiffView *)

\* the anchor line number of the record at the 0-based hunk index i
HunkAnchor(i) == AnchorOf(diff.hunks[i + 1])

\* the most recent defined anchor among the records before hunk index i
PreviousDefinedAnchor(i) ==
  LET defined == {j \in 0..(i - 1) : HunkAnchor(j) # Undef}
  IN IF defined = {} THEN Undef
     ELSE HunkAnchor(CHOOSE j \in defined : \A k \in defined : k <= j)

\* the row positions (1-based) of lineToHunkIndex that hold a separator
SeparatorRows == {k \in 1..Len(lineToHunkIndex) : lineToHunkIndex[k] = -1}

\* the record rows are the hunks 0..n-1 in order, and every separator row is
\* directly followed by a record row
RowsCoverHunksInOrder ==
  LET recordRows == SelectSeq(lineToHunkIndex, LAMBDA h : h # -1)
  IN /\ recordRows = [k \in 1..Len(diff.hunks) |-> k - 1]
     /\ \A k \in SeparatorRows :
          k < Len(lineToHunkIndex) /\ lineToHunkIndex[k + 1] # -1

\* a separator row stands directly before the row at position k
SeparatorBefore(k) == k > 1 /\ lineToHunkIndex[k - 1] = -1

\* C2 (as claimed): in every reachable state of the view the cursor is within
\* 0..max(0, totalLines-1) and scrollOffset >= 0; a moveCursor by a delta larger
\* than the view ends at the last row, by one below minus the view at row 0.
C2_CursorAndScrollInRange ==
  /\ 0 <= cursorLine
  /\ cursorLine <= Max(0, TotalLines - 1)
  /\ scrollOffset >= 0
  /\ (viewOp.op = "moveCursor" /\ viewOp.arg = MaxDelta)
       => cursorLine = Max(0, TotalLines - 1)
  /\ (viewOp.op = "moveCursor" /\ viewOp.arg = 0 - MaxDelta) => cursorLine = 0

ReturnedRowIndices ==
  {i \in 0..(TotalLines - 1) :
     \E k \in 1..Len(viewOp.out) :
       viewOp.out[k] =
         TruncateToWidth(
           IF IsHighlighted(i, cursorLine, visualMode, visualAnchor)
           THEN HighlightRow(renderedLines[i + 1].content)
           ELSE renderedLines[i + 1].content,
           viewOp.width)}

C5_ScrollOffsetClamped ==
  viewOp.op = "render" =>
    /\ 0 <= scrollOffset
    /\ scrollOffset <= Max(0, TotalLines - viewOp.height)

\* C6 (as claimed): render returns exactly min(height, totalLines) rows, the
\* rows at scrollOffset, scrollOffset+1, ... in row order.
C6_RenderReturnsWindow ==
  viewOp.op = "render" =>
    /\ Len(viewOp.out) = Min(viewOp.height, TotalLines)
    /\ \A k \in 1..Len(viewOp.out) :
         LET i == scrollOffset + (k - 1) IN
         /\ 0 <= i /\ i < TotalLines
         /\ viewOp.out[k] =
              TruncateToWidth(
                IF IsHighlighted(i, cursorLine, visualMode, visualAnchor)
                THEN HighlightRow(renderedLines[i + 1].content)
                ELSE renderedLines[i + 1].content,
                viewOp.width)

\* C7: every row render returns has at most width visible characters (those
\* left after the escape sequences are stripped), and a returned row holding
\* an escape character ends with the reset code.
C7_RowsFitWidth ==
  viewOp.op = "render" =>
    \A k \in 1..Len(viewOp.out) :
      LET row == viewOp.out[k] IN
      /\ Len(StripAnsi(row)) <= viewOp.width
      /\ (\E i \in 1..Len(row) : row[i] = ESC) => EndsWith(row, RESET)

\* C7 witness: a render in visual mode that cut a highlighted row and a plain
\* row down to a width of 3, and one with width 0
C7_Witness ==
  /\ viewOp.op = "render"
  /\ viewOp.width = 3
  /\ visualMode
  /\ cursorLine # visualAnchor
  /\ \E k \in 1..Len(viewOp.out) :
       /\ Len(StripAnsi(viewOp.out[k])) = 3
       /\ Includes(viewOp.out[k], ANSI_HIGHLIGHT_BG)
  /\ \E k \in 1..Len(viewOp.out) :
       /\ Len(StripAnsi(viewOp.out[k])) = 3
       /\ ~Includes(viewOp.out[k], ANSI_HIGHLIGHT_BG)

----------------------------------------------------------------------------
(* computeDiff (diff-engine.ts): a content is the sequence of its lines,    *)
(* the empty string the empty sequence.  The line diff of the external      *)
(* library is minimal, so the lines it adds and removes are those outside   *)
(* a longest common subsequence.                                            *)

RECURSIVE LcsLength(_, _)
LcsLength(a, b) ==
  IF Len(a) = 0 \/ Len(b) = 0 THEN 0
  ELSE IF Head(a) = Head(b) THEN 1 + LcsLength(Tail(a), Tail(b))
  ELSE Max(LcsLength(Tail(a), b), LcsLength(a, Tail(b)))

\* the summary of computeDiff's result: isNewFile and the two tallies
ComputeDiff(filePath, original, current) ==
  IF original = <<>> /\ current = <<>>
  THEN [filePath |-> filePath, isNewFile |-> FALSE, additions |-> 0, deletions |-> 0]
  ELSE [filePath |-> filePath,
        isNewFile |-> (original = <<>> /\ current # <<>>),
        additions |-> Len(current) - LcsLength(original, current),
        deletions |-> Len(original) - LcsLength(original, current)]

----------------------------------------------------------------------------
(* DiffState: the snapshot ledger *)

\* the paths the host writes to, in the order it first tracks them
PathOrder == <<"A", "B", "C">>
Paths == {PathOrder[k] : k \in 1..Len(PathOrder)}
Contents == {<<>>, <<"a">>}

\* this.snapshots.has(filePath)
IsTracked(snaps, filePath) == \E k \in 1..Len(snaps) : snaps[k].path = filePath

\* the position of filePath's entry in the Map
EntryOf(snaps, filePath) == CHOOSE k \in 1..Len(snaps) : snaps[k].path = filePath

\* a mutation of UpdateFileIn: the update also moves the baseline
UpdateFileIn_Rebase(snaps, filePath, currentContent) ==
  IF IsTracked(snaps, filePath)
  THEN [snaps EXCEPT ![EntryOf(snaps, filePath)].currentContent = currentContent,
                     ![EntryOf(snaps, filePath)].originalContent = currentContent]
  ELSE snaps

\* a mutation of UpdateFileIn: an untracked path is tracked by the update
UpdateFileIn_Upsert(snaps, filePath, currentContent) ==
  IF IsTracked(snaps, filePath)
  THEN [snaps EXCEPT ![EntryOf(snaps, filePath)].currentContent = currentContent]
  ELSE Append(snaps, [path |-> filePath, originalContent |-> <<>>,
                      currentContent |-> currentContent])

\* updateFile
UpdateFileIn(snaps, filePath, currentContent) ==
  IF IsTracked(snaps, filePath)
  THEN [snaps EXCEPT ![EntryOf(snaps, filePath)].currentContent = currentContent]
  ELSE snaps

\* a mutation of TrackFileIn: a second track replaces the baseline
TrackFileIn_Overwrite(snaps, filePath, originalContent, currentContent) ==
  IF IsTracked(snaps, filePath)
  THEN [snaps EXCEPT ![EntryOf(snaps, filePath)].originalContent = originalContent,
                     ![EntryOf(snaps, filePath)].currentContent = currentContent]
  ELSE Append(snaps, [path |-> filePath, originalContent |-> originalContent,
                      currentContent |-> currentContent])

\* trackFile
TrackFileIn(snaps, filePath, originalContent, currentContent) ==
  IF IsTracked(snaps, filePath)
  THEN UpdateFileIn(snaps, filePath, currentContent)
  ELSE Append(snaps, [path |-> filePath, originalContent |-> originalContent,
                      currentContent |-> currentContent])

\* a mutation of DismissFileIn: the edit is reverted instead of accepted
DismissFileIn_Revert(snaps, filePath) ==
  IF IsTracked(snaps, filePath)
  THEN [snaps EXCEPT ![EntryOf(snaps, filePath)].currentContent =
                        snaps[EntryOf(snaps, filePath)].originalContent]
  ELSE snaps

\* a mutation of DismissFileIn: baseline and current content change places
DismissFileIn_Swap(snaps, filePath) ==
  IF IsTracked(snaps, filePath)
  THEN [snaps EXCEPT ![EntryOf(snaps, filePath)].originalContent =
                        snaps[EntryOf(snaps, filePath)].currentContent,
                     ![EntryOf(snaps, filePath)].currentContent =
                        snaps[EntryOf(snaps, filePath)].originalContent]
  ELSE snaps

\* a mutation of DismissFileIn: every tracked path is dismissed with it
DismissFileIn_All(snaps, filePath) ==
  IF IsTracked(snaps, filePath)
  THEN [k \in 1..Len(snaps) |->
          [snaps[k] EXCEPT !.originalContent = snaps[k].currentContent]]
  ELSE snaps

\* dismissFile
DismissFileIn(snaps, filePath) ==
  IF IsTracked(snaps, filePath)
  THEN [snaps EXCEPT ![EntryOf(snaps, filePath)].originalContent =
                        snaps[EntryOf(snaps, filePath)].currentContent]
  ELSE snaps

\* a mutation of GetChangedFiles: the changed paths, the latest tracked first
GetChangedFiles_Reversed(snaps) ==
  LET changed == SelectSeq(snaps, LAMBDA e : e.originalContent # e.currentContent)
  IN [k \in 1..Len(changed) |-> changed[Len(changed) + 1 - k].path]

\* getChangedFiles
GetChangedFiles(snaps) ==
  LET changed == SelectSeq(snaps, LAMBDA e : e.originalContent # e.currentContent)
  IN [k \in 1..Len(changed) |-> changed[k].path]

\* getFileDiff of a tracked path
GetFileDiff(snaps, filePath) ==
  LET e == snaps[EntryOf(snaps, filePath)]
  IN ComputeDiff(filePath, e.originalContent, e.currentContent)

\* get pendingCount
PendingCount(snaps) == Len(GetChangedFiles(snaps))

\* getFileDiff of a path that is not tracked returns undefined
NoDiff == [undefined |-> TRUE]

\* getFileDiff of any path
GetFileDiffOrUndefined(snaps, filePath) ==
  IF ~IsTracked(snaps, filePath) THEN NoDiff ELSE GetFileDiff(snaps, filePath)

----------------------------------------------------------------------------
(* DiffReviewModal: the review session *)

\* a mutation of RefreshOf: the list is rebuilt but the selection is not clamped
RefreshOf_NoClamp(snaps, selected) ==
  LET changedFiles == GetChangedFiles(snaps)
  IN [fileList |-> [k \in 1..Len(changedFiles) |->
                      LET d == GetFileDiff(snaps, changedFiles[k])
                      IN [path |-> changedFiles[k], additions |-> d.additions,
                          deletions |-> d.deletions, isNewFile |-> d.isNewFile]],
      selectedIndex |-> selected]

\* refresh: the new file list and the clamped selection
RefreshOf(snaps, selected) ==
  LET changedFiles == GetChangedFiles(snaps)
      list == [k \in 1..Len(changedFiles) |->
                 LET d == GetFileDiff(snaps, changedFiles[k])
                 IN [path |-> changedFiles[k], additions |-> d.additions,
                     deletions |-> d.deletions, isNewFile |-> d.isNewFile]]
  IN [fileList |-> list,
      selectedIndex |-> IF Len(list) = 0 THEN 0
                        ELSE IF selected >= Len(list) THEN Len(list) - 1
                        ELSE selected]

\* no file is selected: the selectedFile getter returns undefined
NoPath == ""

\* get selectedFile
SelectedFile ==
  IF Len(fileList) = 0 THEN NoPath
  ELSE IF selectedIndex >= 0 /\ selectedIndex < Len(fileList)
  THEN fileList[selectedIndex + 1].path
  ELSE NoPath

\* new DiffReviewModal(new DiffState())
InitModal ==
  /\ snapshots = <<>>
  /\ selectedIndex = 0
  /\ fileList = <<>>
  /\ filePickerOpen = FALSE
  /\ filePickerIndex = 0
  /\ modalOp = ModalCall("new", NoPath, FALSE)

\* the host calls diffState.trackFile
TrackFile(filePath, originalContent, currentContent) ==
  /\ snapshots' = TrackFileIn(snapshots, filePath, originalContent, currentContent)
  /\ modalOp' = ModalCall("trackFile", NoPath, FALSE)
  /\ UNCHANGED <<selectedIndex, fileList, filePickerOpen, filePickerIndex>>

\* the host calls diffState.updateFile
UpdateFile(filePath, currentContent) ==
  /\ snapshots' = UpdateFileIn(snapshots, filePath, currentContent)
  /\ modalOp' = ModalCall("updateFile", NoPath, FALSE)
  /\ UNCHANGED <<selectedIndex, fileList, filePickerOpen, filePickerIndex>>

\* the host calls diffState.dismissFile
DismissFile(filePath) ==
  /\ snapshots' = DismissFileIn(snapshots, filePath)
  /\ modalOp' = ModalCall("dismissFile", NoPath, FALSE)
  /\ UNCHANGED <<selectedIndex, fileList, filePickerOpen, filePickerIndex>>

Refresh ==
  LET r == RefreshOf(snapshots, selectedIndex) IN
  /\ fileList' = r.fileList
  /\ selectedIndex' = r.selectedIndex
  /\ modalOp' = ModalCall("refresh", NoPath, FALSE)
  /\ UNCHANGED <<snapshots, filePickerOpen, filePickerIndex>>

SelectNext ==
  /\ selectedIndex' = IF Len(fileList) = 0 THEN selectedIndex
                      ELSE (selectedIndex + 1) % Len(fileList)
  /\ modalOp' = ModalCall("selectNext", NoPath, FALSE)
  /\ UNCHANGED <<snapshots, fileList, filePickerOpen, filePickerIndex>>

SelectPrevious ==
  /\ selectedIndex' = IF Len(fileList) = 0 THEN selectedIndex
                      ELSE IF selectedIndex = 0 THEN Len(fileList) - 1
                      ELSE selectedIndex - 1
  /\ modalOp' = ModalCall("selectPrevious", NoPath, FALSE)
  /\ UNCHANGED <<snapshots, fileList, filePickerOpen, filePickerIndex>>

SelectIndex(index) ==
  /\ selectedIndex' = IF Len(fileList) = 0 THEN 0
                      ELSE Max(0, Min(index, Len(fileList) - 1))
  /\ modalOp' = ModalCall("selectIndex", NoPath, FALSE)
  /\ UNCHANGED <<snapshots, fileList, filePickerOpen, filePickerIndex>>

\* a mutation of DismissSelected: the first file of the list is dismissed
DismissSelected_First ==
  LET selectedPath == IF Len(fileList) = 0 THEN NoPath ELSE fileList[1].path IN
  IF selectedPath = NoPath
  THEN /\ modalOp' = ModalCall("dismissSelected", NoPath, FALSE)
       /\ UNCHANGED <<snapshots, selectedIndex, fileList, filePickerOpen,
                      filePickerIndex>>
  ELSE LET dismissed == DismissFileIn(snapshots, selectedPath)
           r == RefreshOf(dismissed, selectedIndex)
       IN /\ snapshots' = dismissed
          /\ fileList' = r.fileList
          /\ selectedIndex' =
               IF r.selectedIndex >= Len(r.fileList) /\ Len(r.fileList) > 0
               THEN Len(r.fileList) - 1
               ELSE r.selectedIndex
          /\ modalOp' = ModalCall("dismissSelected", selectedPath, TRUE)
          /\ UNCHANGED <<filePickerOpen, filePickerIndex>>

DismissSelected ==
  LET selectedPath == SelectedFile IN
  IF selectedPath = NoPath
  THEN /\ modalOp' = ModalCall("dismissSelected", NoPath, FALSE)
       /\ UNCHANGED <<snapshots, selectedIndex, fileList, filePickerOpen,
                      filePickerIndex>>
  ELSE LET dismissed == DismissFileIn(snapshots, selectedPath)
           r == RefreshOf(dismissed, selectedIndex)
       IN /\ snapshots' = dismissed
          /\ fileList' = r.fileList
          /\ selectedIndex' =
               IF r.selectedIndex >= Len(r.fileList) /\ Len(r.fileList) > 0
               THEN Len(r.fileList) - 1
               ELSE r.selectedIndex
          /\ modalOp' = ModalCall("dismissSelected", selectedPath, TRUE)
          /\ UNCHANGED <<filePickerOpen, filePickerIndex>>

OpenFilePicker ==
  /\ filePickerOpen' = TRUE
  /\ filePickerIndex' = selectedIndex
  /\ modalOp' = ModalCall("openFilePicker", NoPath, FALSE)
  /\ UNCHANGED <<snapshots, selectedIndex, fileList>>

CloseFilePicker ==
  /\ filePickerOpen' = FALSE
  /\ modalOp' = ModalCall("closeFilePicker", NoPath, FALSE)
  /\ UNCHANGED <<snapshots, selectedIndex, fileList, filePickerIndex>>

FilePickerNext ==
  /\ filePickerIndex' = IF Len(fileList) = 0 THEN filePickerIndex
                        ELSE (filePickerIndex + 1) % Len(fileList)
  /\ modalOp' = ModalCall("filePickerNext", NoPath, FALSE)
  /\ UNCHANGED <<snapshots, selectedIndex, fileList, filePickerOpen>>

FilePickerPrevious ==
  /\ filePickerIndex' = IF Len(fileList) = 0 THEN filePickerIndex
                        ELSE IF filePickerIndex = 0 THEN Len(fileList) - 1
                        ELSE filePickerIndex - 1
  /\ modalOp' = ModalCall("filePickerPrevious", NoPath, FALSE)
  /\ UNCHANGED <<snapshots, selectedIndex, fileList, filePickerOpen>>

ConfirmFilePickerSelection ==
  /\ selectedIndex' = filePickerIndex
  /\ filePickerOpen' = FALSE
  /\ modalOp' = ModalCall("confirmFilePickerSelection", NoPath, FALSE)
  /\ UNCHANGED <<snapshots, fileList, filePickerIndex>>

----------------------------------------------------------------------------
(* SpecModal: a review session over a ledger the host keeps writing to *)

\* the view part while the session is exercised alone
ViewIdle == Constructed(emptyDiff, "none")

InitSession == InitModal /\ ViewIdle /\ UiIdle

\* the path trackFile is called with: the next new one (a write to a tracked
\* path is the updateFile call)
Trackable ==
  {PathOrder[k] : k \in (Len(snapshots) + 1)..Min(Len(snapshots) + 1, Len(PathOrder))}

NextSession ==
  /\ \/ \E p \in Trackable : \E o \in Contents : \E c \in Contents :
          TrackFile(p, o, c)
     \/ \E p \in Paths : \E c \in Contents : UpdateFile(p, c)
     \/ \E p \in Paths : DismissFile(p)
     \/ Refresh
     \/ SelectNext
     \/ SelectPrevious
     \/ \E index \in -1..Cardinality(Paths) : SelectIndex(index)
     \/ DismissSelected
     \/ OpenFilePicker
     \/ CloseFilePicker
     \/ FilePickerNext
     \/ FilePickerPrevious
     \/ ConfirmFilePickerSelection
  /\ UNCHANGED viewVars
  /\ UNCHANGED uiVars

SpecModal == InitSession /\ [][NextSession]_vars

----------------------------------------------------------------------------
(* Claims about DiffReviewModal *)

\* the paths of a file list
PathsOf(list) == [k \in 1..Len(list) |-> list[k].path]

\* the entry refresh builds for the path at position k of the changed files
EntryFor(snaps, k) ==
  LET path == GetChangedFiles(snaps)[k]
      e == snaps[EntryOf(snaps, path)]
      d == ComputeDiff(path, e.originalContent, e.currentContent)
  IN [path |-> path, additions |-> d.additions, deletions |-> d.deletions,
      isNewFile |-> d.isNewFile]

\* the selection after the list was rebuilt with n entries: unchanged when
\* still in range, else the last index, 0 for an empty list
ClampedSelection(selected, n) ==
  IF n = 0 THEN 0 ELSE IF selected < n THEN selected ELSE n - 1

\* C1 (as claimed): 0 <= selectedIndex < files.length whenever the file list is
\* non-empty and selectedIndex = 0 when it is empty, so that the entry the
\* overlay renders, files[selectedIndex], exists.
C1_SelectedIndexInRange ==
  IF Len(fileList) = 0 THEN selectedIndex = 0
  ELSE 0 <= selectedIndex /\ selectedIndex < Len(fileList)

\* C8: dismissSelected with no file selected returns false and changes neither
\* the ledger nor the session; otherwise it returns true, the ledger differs
\* only in the selected path's baseline, now its current content, the file
\* list is the refreshed one without that path, and selectedIndex is unchanged
\* unless it overflowed the new list, then it is the last index (0 if empty).
C8_DismissSelectedEffect ==
  [][modalOp'.op = "dismissSelected" =>
       IF SelectedFile = NoPath
       THEN /\ modalOp'.result = FALSE
            /\ UNCHANGED <<snapshots, selectedIndex, fileList, filePickerOpen,
                           filePickerIndex>>
       ELSE /\ modalOp'.result = TRUE
            /\ Len(snapshots') = Len(snapshots)
            /\ \A k \in 1..Len(snapshots) :
                 /\ snapshots'[k].path = snapshots[k].path
                 /\ snapshots'[k].currentContent = snapshots[k].currentContent
                 /\ snapshots'[k].originalContent =
                      IF snapshots[k].path = SelectedFile
                      THEN snapshots[k].currentContent
                      ELSE snapshots[k].originalContent
            /\ PathsOf(fileList') = GetChangedFiles(snapshots')
            /\ \A k \in 1..Len(fileList') : fileList'[k].path # SelectedFile
            /\ selectedIndex' = ClampedSelection(selectedIndex, Len(fileList'))
            /\ UNCHANGED <<filePickerOpen, filePickerIndex>>
    ]_vars

\* C8 witness: dismissSelected returned true for B, selected at index 1, and
\* left the list [A] with selectedIndex 0; and a call that returned false
C8_Witness ==
  /\ modalOp.op = "dismissSelected"
  /\ modalOp.result = TRUE
  /\ modalOp.path = "B"
  /\ PathsOf(fileList) = <<"A">>
  /\ selectedIndex = 0

\* C9: after refresh the file list is the ledger's changed paths in their
\* order, each entry with the additions, deletions and isNewFile of that
\* path's diff; the ledger is untouched; selectedIndex is unchanged when still
\* in range, else the last index, 0 for an empty list.
C9_RefreshEffect ==
  [][modalOp'.op = "refresh" =>
       /\ snapshots' = snapshots
       /\ Len(fileList') = Len(GetChangedFiles(snapshots))
       /\ \A k \in 1..Len(fileList') : fileList'[k] = EntryFor(snapshots, k)
       /\ selectedIndex' = ClampedSelection(selectedIndex, Len(fileList'))
       /\ UNCHANGED <<filePickerOpen, filePickerIndex>>
    ]_vars

\* C9 witness: a refresh that listed a new file and a file with a deleted
\* line, with the selection on the last entry
C9_Witness ==
  /\ modalOp.op = "refresh"
  /\ Len(fileList) = 2
  /\ selectedIndex = 1
  /\ \E k \in 1..2 : fileList[k].isNewFile /\ fileList[k].additions = 1
  /\ \E k \in 1..2 : ~fileList[k].isNewFile /\ fileList[k].deletions = 1

\* C10 (as claimed): openFilePicker opens the picker with pickerIndex =
\* selectedIndex; while it is open filePickerNext maps pickerIndex i to
\* (i+1) mod n and filePickerPrevious to (i-1) mod n over the n >= 1 files,
\* neither touching selectedIndex; closeFilePicker clears the flag only;
\* confirmFilePickerSelection sets selectedIndex = pickerIndex and closes.
C10_PickerTransitions ==
  [][/\ modalOp'.op = "openFilePicker" =>
          /\ filePickerOpen' /\ filePickerIndex' = selectedIndex
          /\ UNCHANGED <<snapshots, selectedIndex, fileList>>
     /\ (modalOp'.op = "filePickerNext" /\ filePickerOpen /\ Len(fileList) >= 1) =>
          /\ filePickerIndex' = (filePickerIndex + 1) % Len(fileList)
          /\ UNCHANGED <<snapshots, selectedIndex, fileList, filePickerOpen>>
     /\ (modalOp'.op = "filePickerPrevious" /\ filePickerOpen /\ Len(fileList) >= 1) =>
          /\ filePickerIndex' = (filePickerIndex - 1) % Len(fileList)
          /\ UNCHANGED <<snapshots, selectedIndex, fileList, filePickerOpen>>
     /\ modalOp'.op = "closeFilePicker" =>
          /\ ~filePickerOpen'
          /\ UNCHANGED <<snapshots, selectedIndex, fileList, filePickerIndex>>
     /\ modalOp'.op = "confirmFilePickerSelection" =>
          /\ selectedIndex' = filePickerIndex
          /\ ~filePickerOpen'
          /\ UNCHANGED <<snapshots, fileList, filePickerIndex>>
    ]_vars

\* C11 (as claimed): while the file picker is open filePickerIndex is bounded
\* like selectedIndex: within 0..files.length-1 for a non-empty file list, 0
\* for an empty one, also after the list shrank under the open picker.
C11_PickerIndexInRange ==
  filePickerOpen =>
    IF Len(fileList) = 0 THEN filePickerIndex = 0
    ELSE 0 <= filePickerIndex /\ filePickerIndex < Len(fileList)

\* C12 (as claimed): over n >= 1 files selectNext takes selectedIndex i to
\* (i+1) mod n and selectPrevious takes it to (i-1) mod n, so that either undoes
\* the other; on an empty list both leave the session as it is.
C12_SelectionIsCircular ==
  [][(modalOp'.op \in {"selectNext", "selectPrevious"}) =>
       /\ UNCHANGED <<snapshots, fileList, filePickerOpen, filePickerIndex>>
       /\ IF Len(fileList) = 0 THEN selectedIndex' = selectedIndex
          ELSE /\ modalOp'.op = "selectNext" =>
                    selectedIndex' = (selectedIndex + 1) % Len(fileList)
               /\ modalOp'.op = "selectPrevious" =>
                    /\ selectedIndex' = (selectedIndex - 1) % Len(fileList)
                    /\ (selectedIndex' + 1) % Len(fileList) = selectedIndex
    ]_vars

\* C13 (as claimed): scrollDown(n) / scrollUp(n) move scrollOffset by +n / -n,
\* never below 0, and move the cursor by the same signed amount, clamped to the
\* rows; from cursor = scrollOffset, as long as neither value reaches a bound,
\* the two stay equal.
C13_ScrollMovesCursorAlong ==
  [][(viewOp'.op \in {"scrollDown", "scrollUp"}) =>
       LET by == IF viewOp'.op = "scrollDown" THEN viewOp'.arg ELSE 0 - viewOp'.arg
           offsetFree == 0 <= scrollOffset + by /\ scrollOffset + by <= TotalLines
           cursorFree == 0 <= cursorLine + by
                           /\ cursorLine + by <= Max(0, TotalLines - 1)
       IN /\ scrollOffset' >= 0
          /\ offsetFree => scrollOffset' = scrollOffset + by
          /\ cursorFree => cursorLine' = cursorLine + by
          /\ cursorLine + by < 0 => cursorLine' = 0
          /\ cursorLine + by > Max(0, TotalLines - 1)
               => cursorLine' = Max(0, TotalLines - 1)
          /\ (cursorLine = scrollOffset /\ offsetFree /\ cursorFree)
               => cursorLine' = scrollOffset'
          /\ UNCHANGED <<renderedLines, lineToHunkIndex, visualMode, visualAnchor>>
    ]_vars

\* C14: setDiff from any state of the view leaves exactly the rows built from
\* the new diff (its records in order, a separator only directly before a
\* record), the cursor at row 0, scrollOffset 0 and visual mode off.
C14_SetDiffResets ==
  [][viewOp'.op = "setDiff" =>
       /\ cursorLine' = 0
       /\ scrollOffset' = 0
       /\ visualMode' = FALSE
       /\ renderedLines' = BuildRenderedLines(diff', highlightFn).renderedLines
       /\ Len(renderedLines') = Len(lineToHunkIndex')
       /\ RowsCoverHunksInOrder'
       /\ \A k \in 1..Len(lineToHunkIndex') :
            LET i == lineToHunkIndex'[k] IN
            IF i = -1 THEN renderedLines'[k] = CreateSeparatorLine
            ELSE EndsWith(renderedLines'[k].rawContent, diff'.hunks[i + 1].content)
    ]_vars

\* C14 witness: the empty diff was loaded over a view whose visual selection
\* had been anchored at row 4 of the previous diff
C14_Witness ==
  /\ viewOp.op = "setDiff"
  /\ diff = emptyDiff
  /\ visualAnchor = 4
  /\ TotalLines = 0
  /\ cursorLine = 0
  /\ scrollOffset = 0
  /\ ~visualMode

----------------------------------------------------------------------------
(* InlineDiffView: reading the visual selection *)

\* the loop of getSelectedRawLines
RECURSIVE SelectedRawLoop(_, _, _, _)
SelectedRawLoop(lines, i, max, selectedLines) ==
  IF i > max THEN selectedLines
  ELSE SelectedRawLoop(lines, i + 1, max,
                       IF i >= 0 /\ i < Len(lines)
                       THEN Append(selectedLines, lines[i + 1].rawContent)
                       ELSE selectedLines)

\* a mutation of SelectedDiffLoop: the last row of the range is left out
RECURSIVE SelectedDiffLoop_StopEarly(_, _, _, _, _)
SelectedDiffLoop_StopEarly(d, map, i, max, selectedDiffLines) ==
  IF i >= max THEN selectedDiffLines
  ELSE SelectedDiffLoop_StopEarly(d, map, i + 1, max,
         IF i >= 0 /\ i < Len(map) /\ map[i + 1] # -1
         THEN Append(selectedDiffLines, d.hunks[map[i + 1] + 1])
         ELSE selectedDiffLines)

\* the loop of getSelectedDiffLines
RECURSIVE SelectedDiffLoop(_, _, _, _, _)
SelectedDiffLoop(d, map, i, max, selectedDiffLines) ==
  IF i > max THEN selectedDiffLines
  ELSE SelectedDiffLoop(d, map, i + 1, max,
         IF i >= 0 /\ i < Len(map) /\ map[i + 1] # -1
         THEN Append(selectedDiffLines, d.hunks[map[i + 1] + 1])
         ELSE selectedDiffLines)

\* a call of getVisualRange: the view is left alone, the range is returned
ReadVisualRange ==
  /\ viewOp' = ViewCall("getVisualRange", 0, 0, 0,
                        GetVisualRange(visualAnchor, cursorLine))
  /\ UNCHANGED <<diff, highlightFn, renderedLines, lineToHunkIndex, scrollOffset,
                 cursorLine, visualMode, visualAnchor>>

GetSelectedRawLines ==
  LET range == GetVisualRange(visualAnchor, cursorLine) IN
  /\ viewOp' = ViewCall("getSelectedRawLines", 0, 0, 0,
                        SelectedRawLoop(renderedLines, range[1], range[2], <<>>))
  /\ UNCHANGED <<diff, highlightFn, renderedLines, lineToHunkIndex, scrollOffset,
                 cursorLine, visualMode, visualAnchor>>

GetSelectedDiffLines ==
  LET range == GetVisualRange(visualAnchor, cursorLine) IN
  /\ viewOp' = ViewCall("getSelectedDiffLines", 0, 0, 0,
                        SelectedDiffLoop(diff, lineToHunkIndex, range[1], range[2],
                                         <<>>))
  /\ UNCHANGED <<diff, highlightFn, renderedLines, lineToHunkIndex, scrollOffset,
                 cursorLine, visualMode, visualAnchor>>

\* two hunks of context, lines 1-2 and 10-11: five rows with the separator at
\* row 2
contextDiff ==
  FileDiff("test.ts",
    << DiffLine("context", <<"a">>, 1, 1),
       DiffLine("context", <<"b">>, 2, 2),
       DiffLine("context", <<"j">>, 10, 10),
       DiffLine("context", <<"k">>, 11, 11) >>)

\* a diff shorter than the tallest window
pairDiff ==
  FileDiff("pair.ts",
    << DiffLine("context", <<"a">>, 1, 1),
       DiffLine("added", <<"b">>, Undef, 2) >>)

VisualDiffs == {contextDiff, pairDiff}

----------------------------------------------------------------------------
(* SpecVisual: a view whose cursor is moved and scrolled with a visual      *)
(* selection open, and whose selection is read and rendered                 *)

InitVisual ==
  /\ \E d \in VisualDiffs : Constructed(d, "sgr")
  /\ ModalIdle
  /\ UiIdle

NextVisual ==
  /\ \/ \E d \in VisualDiffs : SetDiff(d)
     \/ MoveCursor(1)
     \/ MoveCursor(-1)
     \/ ScrollDown(1)
     \/ ScrollDown(-1)
     \/ EnterVisualMode
     \/ ExitVisualMode
     \/ ReadVisualRange
     \/ GetSelectedRawLines
     \/ GetSelectedDiffLines
     \/ \E visibleHeight \in 1..MaxHeight : Render(MaxWidth, visibleHeight)
  /\ UNCHANGED modalVars
  /\ UNCHANGED uiVars

SpecVisual == InitVisual /\ [][NextVisual]_vars

----------------------------------------------------------------------------
(* Claims about the visual selection *)

\* the operations that move the cursor
CursorMoves == {"moveCursor", "setCursor", "scrollUp", "scrollDown",
                "scrollToTop", "scrollToBottom"}

\* C15: enterVisualMode turns visual mode on with the anchor at the cursor row
\* and leaves the cursor where it is; no cursor move touches the anchor or the
\* mode; and getVisualRange returns the anchor and the cursor, smaller first,
\* whether the cursor is above or below the anchor.
C15_VisualRangeIsOrdered ==
  [][/\ viewOp'.op = "enterVisualMode" =>
          /\ visualMode' = TRUE
          /\ visualAnchor' = cursorLine
          /\ cursorLine' = cursorLine
     /\ viewOp'.op \in CursorMoves =>
          /\ visualAnchor' = visualAnchor
          /\ visualMode' = visualMode
     /\ viewOp'.op = "getVisualRange" =>
          /\ viewOp'.out = IF visualAnchor <= cursorLine
                           THEN <<visualAnchor, cursorLine>>
                           ELSE <<cursorLine, visualAnchor>>
          /\ UNCHANGED <<cursorLine, visualMode, visualAnchor, scrollOffset>>
    ]_vars

\* C15 witness: the range was read after the cursor had moved above the anchor
C15_Witness ==
  /\ viewOp.op = "getVisualRange"
  /\ visualMode
  /\ cursorLine < visualAnchor
  /\ viewOp.out = <<cursorLine, visualAnchor>>

\* the smaller and the larger of the anchor and the cursor
RangeLow == IF visualAnchor <= cursorLine THEN visualAnchor ELSE cursorLine
RangeHigh == IF visualAnchor <= cursorLine THEN cursorLine ELSE visualAnchor

\* the row positions (1-based) of the rows inside the visual range
RowsInRange == {k \in 1..TotalLines : RangeLow <= k - 1 /\ k - 1 <= RangeHigh}

\* C16: getSelectedRawLines returns, in row order, the text of every row of the
\* visual range free of styling, the marker for a separator row;
\* getSelectedDiffLines returns, in row order, the records behind the rows of
\* the range that are not separators, so its length is the number of rows in
\* the range less the separators among them.
C16_SelectionReaders ==
  /\ viewOp.op = "getSelectedRawLines" =>
       /\ Len(viewOp.out) = Cardinality(RowsInRange)
       /\ \A j \in 1..Len(viewOp.out) :
            /\ viewOp.out[j] = renderedLines[RangeLow + j].rawContent
            /\ viewOp.out[j] = StripAnsi(renderedLines[RangeLow + j].content)
            /\ lineToHunkIndex[RangeLow + j] = -1 =>
                 viewOp.out[j] = CreateSeparatorLine.rawContent
  /\ viewOp.op = "getSelectedDiffLines" =>
       LET backing == SelectSeq([j \in 1..Cardinality(RowsInRange) |->
                                   lineToHunkIndex[RangeLow + j]],
                                LAMBDA h : h # -1)
       IN /\ viewOp.out = [j \in 1..Len(backing) |-> diff.hunks[backing[j] + 1]]
          /\ Len(viewOp.out) =
               Cardinality(RowsInRange) - Cardinality(RowsInRange \cap SeparatorRows)

\* C16 witness: the records of rows 0..3 of the five-row diff were read, the
\* separator at row 2 skipped
C16_Witness ==
  /\ viewOp.op = "getSelectedDiffLines"
  /\ visualMode
  /\ diff = contextDiff
  /\ RangeLow = 0 /\ RangeHigh = 3
  /\ Len(viewOp.out) = 3
  /\ viewOp.out[3] = contextDiff.hunks[3]

\* the row index of the first row render returned: the start of the slice at
\* the stored scrollOffset
FirstReturnedRow ==
  IF scrollOffset >= 0 THEN scrollOffset ELSE Max(0, TotalLines + scrollOffset)

\* C17 (as claimed): a row render returned carries the background highlight
\* exactly when its row index is the cursor row, or visual mode is on and the
\* index lies within the visual range.
C17_HighlightIffSelected ==
  viewOp.op = "render" =>
    \A k \in 1..Len(viewOp.out) :
      LET i == FirstReturnedRow + (k - 1) IN
      Includes(viewOp.out[k], ANSI_HIGHLIGHT_BG)
        <=> \/ i = cursorLine
            \/ visualMode /\ RangeLow <= i /\ i <= RangeHigh

----------------------------------------------------------------------------
(* Claims about the rows of a diff with increasing line numbers *)

\* every record has an anchor and the anchors increase strictly
AnchorsIncrease ==
  \A i \in 0..(Len(diff.hunks) - 1) :
    /\ HunkAnchor(i) # Undef
    /\ i > 0 => HunkAnchor(i - 1) < HunkAnchor(i)

\* the records (0-based) whose anchor exceeds the previous record's by more
\* than one
Gaps == {i \in 1..(Len(diff.hunks) - 1) : HunkAnchor(i) > HunkAnchor(i - 1) + 1}

\* C18: a diff whose records have strictly increasing anchors gives as many
\* rows as it has records and gaps, a separator directly before each record
\* that follows a gap and nowhere else.
C18_RowsAreRecordsPlusGaps ==
  AnchorsIncrease =>
    /\ TotalLines = Len(diff.hunks) + Cardinality(Gaps)
    /\ Cardinality(SeparatorRows) = Cardinality(Gaps)
    /\ RowsCoverHunksInOrder
    /\ \A k \in 1..Len(lineToHunkIndex) :
         lineToHunkIndex[k] # -1 => (SeparatorBefore(k) <=> lineToHunkIndex[k] \in Gaps)

\* C18 witness: records at lines 1 and 3 were loaded and gave three rows with
\* the separator at row 1
C18_Witness ==
  /\ viewOp.op = "setDiff"
  /\ Len(diff.hunks) = 2
  /\ AnchorsIncrease
  /\ Gaps = {1}
  /\ TotalLines = 3
  /\ lineToHunkIndex = <<0, -1, 1>>

----------------------------------------------------------------------------
(* SpecLedger: a DiffState the host tracks, updates and dismisses files in, *)
(* any path at any time                                                      *)

\* the contents a file is written with
LedgerContents == {<<>>, <<"a">>, <<"a", "b">>}

\* the last call on the ledger with its arguments
LedgerCall(op, filePath, originalContent, currentContent) ==
  [op |-> op, path |-> filePath, originalContent |-> originalContent,
   currentContent |-> currentContent]

\* diffState.trackFile(filePath, originalContent, currentContent)
LedgerTrackFile(filePath, originalContent, currentContent) ==
  /\ snapshots' = TrackFileIn(snapshots, filePath, originalContent, currentContent)
  /\ modalOp' = LedgerCall("trackFile", filePath, originalContent, currentContent)
  /\ UNCHANGED <<selectedIndex, fileList, filePickerOpen, filePickerIndex>>

\* diffState.updateFile(filePath, currentContent)
LedgerUpdateFile(filePath, currentContent) ==
  /\ snapshots' = UpdateFileIn(snapshots, filePath, currentContent)
  /\ modalOp' = LedgerCall("updateFile", filePath, <<>>, currentContent)
  /\ UNCHANGED <<selectedIndex, fileList, filePickerOpen, filePickerIndex>>

\* diffState.dismissFile(filePath)
LedgerDismissFile(filePath) ==
  /\ snapshots' = DismissFileIn(snapshots, filePath)
  /\ modalOp' = LedgerCall("dismissFile", filePath, <<>>, <<>>)
  /\ UNCHANGED <<selectedIndex, fileList, filePickerOpen, filePickerIndex>>

InitLedger == InitModal /\ ViewIdle /\ UiIdle

NextLedger ==
  /\ \/ \E p \in Paths : \E o \in LedgerContents : \E c \in LedgerContents :
          LedgerTrackFile(p, o, c)
     \/ \E p \in Paths : \E c \in LedgerContents : LedgerUpdateFile(p, c)
     \/ \E p \in Paths : LedgerDismissFile(p)
  /\ UNCHANGED viewVars
  /\ UNCHANGED uiVars

SpecLedger == InitLedger /\ [][NextLedger]_vars

----------------------------------------------------------------------------
(* Claims about DiffState *)

\* C19: trackFile of a path that is already tracked leaves that path's
\* baseline as it was just before the call, whatever original content the
\* call names, sets its current content to the call's, and touches no other
\* entry: it is the update of that path.
C19_RetrackIsUpdate ==
  [][(modalOp'.op = "trackFile" /\ IsTracked(snapshots, modalOp'.path)) =>
       LET k == EntryOf(snapshots, modalOp'.path) IN
       /\ Len(snapshots') = Len(snapshots)
       /\ snapshots'[k].path = modalOp'.path
       /\ snapshots'[k].originalContent = snapshots[k].originalContent
       /\ snapshots'[k].currentContent = modalOp'.currentContent
       /\ \A j \in 1..Len(snapshots) : j # k => snapshots'[j] = snapshots[j]
    ]_vars

\* C19 witness: a path was tracked again with an original content other than
\* its baseline, and kept the baseline
C19_Witness ==
  /\ modalOp.op = "trackFile"
  /\ IsTracked(snapshots, modalOp.path)
  /\ LET e == snapshots[EntryOf(snapshots, modalOp.path)] IN
       /\ e.originalContent = <<"a">>
       /\ modalOp.originalContent = <<"a", "b">>
       /\ e.currentContent = modalOp.currentContent
       /\ e.currentContent = <<>>

\* C20: in every step of the ledger each tracked path stays tracked, at its
\* place; its baseline changes only in a dismissFile of that path, and a
\* dismissFile of a tracked path leaves the baseline equal to the current
\* content; updateFile and trackFile of a tracked path keep every baseline.
C20_BaselineChangesOnlyOnDismiss ==
  [][/\ Len(snapshots') >= Len(snapshots)
     /\ \A k \in 1..Len(snapshots) :
          /\ snapshots'[k].path = snapshots[k].path
          /\ snapshots'[k].originalContent # snapshots[k].originalContent =>
               /\ modalOp'.op = "dismissFile"
               /\ modalOp'.path = snapshots[k].path
          /\ (modalOp'.op = "dismissFile" /\ modalOp'.path = snapshots[k].path) =>
               /\ snapshots'[k].originalContent = snapshots[k].currentContent
               /\ snapshots'[k].currentContent = snapshots[k].currentContent
    ]_vars

\* C20 witness: a changed path was dismissed, its baseline now its current
\* content, while another path keeps a baseline that differs from its current
\* content
C20_Witness ==
  /\ modalOp.op = "dismissFile"
  /\ IsTracked(snapshots, modalOp.path)
  /\ LET e == snapshots[EntryOf(snapshots, modalOp.path)] IN
       e.originalContent = <<"a", "b">> /\ e.currentContent = <<"a", "b">>
  /\ \E k \in 1..Len(snapshots) :
       /\ snapshots[k].path # modalOp.path
       /\ snapshots[k].originalContent # snapshots[k].currentContent

\* the set of the elements of a sequence
Range(seq) == {seq[k] : k \in 1..Len(seq)}

\* the tracked paths whose baseline differs from their current content
ChangedSet(snaps) ==
  {snaps[k].path : k \in {j \in 1..Len(snaps) :
                            snaps[j].originalContent # snaps[j].currentContent}}

\* C21: getChangedFiles lists exactly the tracked paths whose baseline differs
\* from their current content, each once, in the order the paths were first
\* tracked (a newly tracked path goes last and no path ever changes place),
\* and pendingCount is the length of that list.
C21_ChangedFilesInTrackingOrder ==
  [][LET changed == GetChangedFiles(snapshots') IN
     /\ Range(changed) = ChangedSet(snapshots')
     /\ \A i \in 1..Len(changed) : \A j \in 1..Len(changed) :
          i < j => EntryOf(snapshots', changed[i]) < EntryOf(snapshots', changed[j])
     /\ PendingCount(snapshots') = Len(changed)
     /\ PendingCount(snapshots') = Cardinality(ChangedSet(snapshots'))
     /\ \A k \in 1..Len(snapshots) : snapshots'[k].path = snapshots[k].path
     /\ \A k \in 1..Len(snapshots') : \A l \in 1..Len(snapshots') :
          snapshots'[k].path = snapshots'[l].path => k = l
    ]_vars

\* C21 witness: the path tracked first was updated after the others and is
\* listed first again, before the path tracked third; the second is unchanged
C21_Witness ==
  /\ modalOp.op = "updateFile"
  /\ Len(snapshots) = 3
  /\ modalOp.path = snapshots[1].path
  /\ snapshots[2].originalContent = snapshots[2].currentContent
  /\ GetChangedFiles(snapshots) = <<snapshots[1].path, snapshots[3].path>>
  /\ PendingCount(snapshots) = 2

\* C22: updateFile and dismissFile of an untracked path leave the ledger as it
\* is, the path still untracked; getFileDiff of a path is undefined exactly
\* when the path is untracked.
C22_UntrackedPathAbsorbed ==
  [][/\ (modalOp'.op \in {"updateFile", "dismissFile"}
           /\ ~IsTracked(snapshots, modalOp'.path)) =>
          /\ snapshots' = snapshots
          /\ ~IsTracked(snapshots', modalOp'.path)
     /\ \A p \in Paths :
          GetFileDiffOrUndefined(snapshots', p) = NoDiff
            <=> \A k \in 1..Len(snapshots') : snapshots'[k].path # p
    ]_vars

\* C22 witness: an untracked path was updated next to a tracked one
C22_Witness ==
  /\ modalOp.op = "updateFile"
  /\ ~IsTracked(snapshots, modalOp.path)
  /\ Len(snapshots) = 1
  /\ GetFileDiffOrUndefined(snapshots, modalOp.path) = NoDiff
  /\ GetFileDiffOrUndefined(snapshots, snapshots[1].path) # NoDiff

\* C23: after dismissFile of a tracked path its baseline is its current
\* content, which the call left alone, and the path is not among the changed
\* files; a second dismissFile of the path changes nothing; and a path that is
\* not among the changed files gets there only by an updateFile or trackFile
\* of that path with a content other than its baseline.
C23_DismissIsIdempotent ==
  [][/\ (modalOp'.op = "dismissFile" /\ IsTracked(snapshots, modalOp'.path)) =>
          LET k == EntryOf(snapshots, modalOp'.path) IN
          /\ snapshots'[k].originalContent = snapshots[k].currentContent
          /\ snapshots'[k].currentContent = snapshots[k].currentContent
          /\ modalOp'.path \notin Range(GetChangedFiles(snapshots'))
          /\ (modalOp.op = "dismissFile" /\ modalOp.path = modalOp'.path)
               => snapshots' = snapshots
     /\ \A p \in Paths :
          (/\ IsTracked(snapshots, p)
           /\ p \notin Range(GetChangedFiles(snapshots))
           /\ p \in Range(GetChangedFiles(snapshots'))) =>
            /\ modalOp'.op \in {"updateFile", "trackFile"}
            /\ modalOp'.path = p
            /\ modalOp'.currentContent #
                 snapshots[EntryOf(snapshots, p)].originalContent
    ]_vars

\* C23 witness: a changed path was dismissed while another stays changed
C23_Witness ==
  /\ modalOp.op = "dismissFile"
  /\ Len(snapshots) = 2
  /\ modalOp.path = snapshots[2].path
  /\ snapshots[2].originalContent = <<"a">>
  /\ snapshots[2].currentContent = <<"a">>
  /\ GetChangedFiles(snapshots) = <<snapshots[1].path>>

\* C24: a ledger call on a path leaves the snapshot of every other path as it
\* is; dismissFile of a changed path lowers pendingCount by one, updateFile of
\* an unchanged tracked path to another content raises it by one, and
\* updateFile of a changed path to a content that still differs from its
\* baseline leaves it.
C24_OtherPathsUntouched ==
  [][modalOp'.op \in {"trackFile", "updateFile", "dismissFile"} =>
       /\ \A k \in 1..Len(snapshots) :
            snapshots[k].path # modalOp'.path => snapshots'[k] = snapshots[k]
       /\ IsTracked(snapshots, modalOp'.path) =>
            LET e == snapshots[EntryOf(snapshots, modalOp'.path)]
                wasChanged == e.originalContent # e.currentContent
            IN /\ (modalOp'.op = "dismissFile" /\ wasChanged) =>
                    PendingCount(snapshots') = PendingCount(snapshots) - 1
               /\ (modalOp'.op = "dismissFile" /\ ~wasChanged) =>
                    PendingCount(snapshots') = PendingCount(snapshots)
               /\ (modalOp'.op = "updateFile" /\ ~wasChanged
                     /\ modalOp'.currentContent # e.currentContent) =>
                    PendingCount(snapshots') = PendingCount(snapshots) + 1
               /\ (modalOp'.op = "updateFile" /\ wasChanged
                     /\ modalOp'.currentContent # e.originalContent) =>
                    PendingCount(snapshots') = PendingCount(snapshots)
    ]_vars

\* C24 witness: with two changed files and an unchanged one, one changed file
\* was dismissed and one file is left pending
C24_Witness ==
  /\ modalOp.op = "dismissFile"
  /\ Len(snapshots) = 3
  /\ modalOp.path = snapshots[1].path
  /\ snapshots[1].currentContent # <<>>
  /\ snapshots[3].originalContent = snapshots[3].currentContent
  /\ PendingCount(snapshots) = 1
  /\ GetChangedFiles(snapshots) = <<snapshots[2].path>>

----------------------------------------------------------------------------
(* DiffState serialization: toJSON and fromJSON *)

\* the serialized layout has version 1
SerializedVersion == 1

\* a mutation of ToJSON: only the files with pending changes are written
ToJSON_ChangedOnly(snaps) ==
  [version |-> SerializedVersion,
   files |-> SelectSeq(snaps, LAMBDA e : e.originalContent # e.currentContent)]

\* toJSON: the version and one {path, originalContent, currentContent} per
\* tracked file, in the order of the ledger
ToJSON(snaps) ==
  [version |-> SerializedVersion,
   files |-> [k \in 1..Len(snaps) |->
                [path |-> snaps[k].path,
                 originalContent |-> snaps[k].originalContent,
                 currentContent |-> snaps[k].currentContent]]]

\* fromJSON, the files from the k-th on: each file's snapshot is set in a
\* fresh ledger under its path
RECURSIVE FromJSONLoop(_, _, _)
FromJSONLoop(files, k, snaps) ==
  IF k > Len(files) THEN snaps
  ELSE LET f == files[k]
           e == [path |-> f.path, originalContent |-> f.originalContent,
                 currentContent |-> f.currentContent]
       IN FromJSONLoop(files, k + 1,
            IF IsTracked(snaps, f.path)
            THEN [snaps EXCEPT ![EntryOf(snaps, f.path)] = e]
            ELSE Append(snaps, e))

\* DiffState.fromJSON(json)
FromJSON(json) == FromJSONLoop(json.files, 1, <<>>)

\* a call of the serialization, as the host sees it
SerialCall(op, json) ==
  [op |-> op, path |-> NoPath, originalContent |-> <<>>, currentContent |-> <<>>,
   json |-> json]

\* json = diffState.toJSON()
LedgerToJSON ==
  /\ modalOp.op # "toJSON"
  /\ modalOp' = SerialCall("toJSON", ToJSON(snapshots))
  /\ UNCHANGED <<snapshots, selectedIndex, fileList, filePickerOpen, filePickerIndex>>

\* diffState = DiffState.fromJSON(json), of the json just written
LedgerFromJSON ==
  /\ modalOp.op = "toJSON"
  /\ snapshots' = FromJSON(modalOp.json)
  /\ modalOp' = SerialCall("fromJSON", modalOp.json)
  /\ UNCHANGED <<selectedIndex, fileList, filePickerOpen, filePickerIndex>>

NextSerial ==
  \/ NextLedger
  \/ LedgerToJSON /\ UNCHANGED <<viewVars, uiVars>>
  \/ LedgerFromJSON /\ UNCHANGED <<viewVars, uiVars>>

SpecSerial == InitLedger /\ [][NextSerial]_vars

\* C25: toJSON has version 1 and lists every tracked file, changed or not, in
\* ledger order with its baseline and current content, leaving the ledger
\* alone; the ledger read back by fromJSON tracks the same paths in the same
\* order with the same contents, so its changed files, pendingCount and
\* per-path diffs are those of the ledger that was written.
C25_SerializationRoundTrips ==
  [][/\ modalOp'.op = "toJSON" =>
          /\ modalOp'.json.version = 1
          /\ Len(modalOp'.json.files) = Len(snapshots)
          /\ \A k \in 1..Len(snapshots) :
               /\ modalOp'.json.files[k].path = snapshots[k].path
               /\ modalOp'.json.files[k].originalContent = snapshots[k].originalContent
               /\ modalOp'.json.files[k].currentContent = snapshots[k].currentContent
          /\ snapshots' = snapshots
     /\ modalOp'.op = "fromJSON" =>
          /\ Len(snapshots') = Len(snapshots)
          /\ \A k \in 1..Len(snapshots) :
               /\ snapshots'[k].path = snapshots[k].path
               /\ snapshots'[k].originalContent = snapshots[k].originalContent
               /\ snapshots'[k].currentContent = snapshots[k].currentContent
          /\ GetChangedFiles(snapshots') = GetChangedFiles(snapshots)
          /\ PendingCount(snapshots') = PendingCount(snapshots)
          /\ \A p \in Paths : GetFileDiffOrUndefined(snapshots', p) =
                               GetFileDiffOrUndefined(snapshots, p)
    ]_vars

\* C25 witness: a ledger of three files, the second one unchanged and the
\* other two changed, was written and read back
C25_Witness ==
  /\ modalOp.op = "fromJSON"
  /\ Len(modalOp.json.files) = 3
  /\ Len(snapshots) = 3
  /\ snapshots[2].originalContent = snapshots[2].currentContent
  /\ GetChangedFiles(snapshots) = <<snapshots[1].path, snapshots[3].path>>
  /\ GetFileDiff(snapshots, snapshots[3].path).additions = 2

----------------------------------------------------------------------------
(* computeDiff (diff-engine.ts), line by line.  Here a content is the        *)
(* sequence of its lines, each with its text and whether a newline ends it;  *)
(* only the last line of a content can lack the newline, and the empty       *)
(* string is the empty sequence.                                             *)

MaxLines == 2

Line(text, nl) == [text |-> text, nl |-> nl]

\* { context: 3 }
ContextSize == 3

\* the line the library writes after a line that no newline ends
NoNewlineMarker ==
  <<"\\", " ", "N", "o", " ", "n", "e", "w", "l", "i", "n", "e", " ", "a", "t",
    " ", "e", "n", "d", " ", "o", "f", " ", "f", "i", "l", "e">>

\* the library's line diff of the two contents from lines i and j on: the
\* common lines of a longest common subsequence, the other lines of the old
\* content removed and those of the new content added
RECURSIVE EditLoop(_, _, _, _)
EditLoop(old, new, i, j) ==
  IF i > Len(old) /\ j > Len(new) THEN <<>>
  ELSE IF i > Len(old) THEN <<[op |-> "+", line |-> new[j]]>> \o EditLoop(old, new, i, j + 1)
  ELSE IF j > Len(new) THEN <<[op |-> "-", line |-> old[i]]>> \o EditLoop(old, new, i + 1, j)
  ELSE IF old[i] = new[j]
       THEN <<[op |-> " ", line |-> old[i]]>> \o EditLoop(old, new, i + 1, j + 1)
  ELSE IF LcsLength(SubSeq(old, i + 1, Len(old)), SubSeq(new, j, Len(new)))
            >= LcsLength(SubSeq(old, i, Len(old)), SubSeq(new, j + 1, Len(new)))
       THEN <<[op |-> "-", line |-> old[i]]>> \o EditLoop(old, new, i + 1, j)
       ELSE <<[op |-> "+", line |-> new[j]]>> \o EditLoop(old, new, i, j + 1)

\* the first common line at or after the k-th edit, or the end
RECURSIVE ChangeEnd(_, _)
ChangeEnd(edits, k) ==
  IF k > Len(edits) \/ edits[k].op = " " THEN k ELSE ChangeEnd(edits, k + 1)

\* within a run of changes the library gives the removed lines first
RECURSIVE RemovedFirst(_, _)
RemovedFirst(edits, k) ==
  IF k > Len(edits) THEN <<>>
  ELSE IF edits[k].op = " " THEN <<edits[k]>> \o RemovedFirst(edits, k + 1)
  ELSE LET e == ChangeEnd(edits, k)
           run == SubSeq(edits, k, e - 1)
       IN SelectSeq(run, LAMBDA x : x.op = "-")
            \o SelectSeq(run, LAMBDA x : x.op = "+")
            \o RemovedFirst(edits, e)

\* Diff.diffLines(original, current)
DiffLines(original, current) == RemovedFirst(EditLoop(original, current, 1, 1), 1)

\* an edit is in a hunk when it is a change or within three lines of one
InHunk(edits, k) ==
  \E m \in 1..Len(edits) :
    /\ edits[m].op # " "
    /\ m - k <= ContextSize
    /\ k - m <= ContextSize

\* hunk.oldStart and hunk.newStart of the hunk that starts with the k-th edit
OldStart(edits, k) == 1 + Cardinality({m \in 1..(k - 1) : edits[m].op # "+"})
NewStart(edits, k) == 1 + Cardinality({m \in 1..(k - 1) : edits[m].op # "-"})

\* hunk.lines of one edit: the line behind its sign, and the marker after a
\* line that no newline ends
PatchLines(edit) ==
  IF edit.line.nl THEN <<<<edit.op>> \o edit.line.text>>
  ELSE <<<<edit.op>> \o edit.line.text, NoNewlineMarker>>

\* the loop over hunk.lines: one record per line of the hunk
RECURSIVE HunkLinesLoop(_, _, _, _)
HunkLinesLoop(lines, n, oldLineNum, newLineNum) ==
  IF n > Len(lines) THEN [hunks |-> <<>>, old |-> oldLineNum, new |-> newLineNum]
  ELSE LET firstChar == lines[n][1]
           content == Tail(lines[n])
       IN IF firstChar = "+"
          THEN LET r == HunkLinesLoop(lines, n + 1, oldLineNum, newLineNum + 1)
               IN [r EXCEPT !.hunks = <<DiffLine("added", content, Undef, newLineNum)>> \o @]
          ELSE IF firstChar = "-"
          THEN LET r == HunkLinesLoop(lines, n + 1, oldLineNum + 1, newLineNum)
               IN [r EXCEPT !.hunks = <<DiffLine("removed", content, oldLineNum, Undef)>> \o @]
          ELSE LET r == HunkLinesLoop(lines, n + 1, oldLineNum + 1, newLineNum + 1)
               IN [r EXCEPT !.hunks =
                     <<DiffLine("context", content, oldLineNum, newLineNum)>> \o @]

\* the loop over patches.hunks, edit by edit: the counters start again at
\* the start of each hunk
RECURSIVE PatchLoop(_, _, _, _)
PatchLoop(edits, k, oldLineNum, newLineNum) ==
  IF k > Len(edits) THEN <<>>
  ELSE IF ~InHunk(edits, k) THEN PatchLoop(edits, k + 1, oldLineNum, newLineNum)
  ELSE LET starts == k = 1 \/ ~InHunk(edits, k - 1)
           o == IF starts THEN OldStart(edits, k) ELSE oldLineNum
           n == IF starts THEN NewStart(edits, k) ELSE newLineNum
           r == HunkLinesLoop(PatchLines(edits[k]), 1, o, n)
       IN r.hunks \o PatchLoop(edits, k + 1, r.old, r.new)

\* computeDiff(filePath, original, current)
ComputeFileDiff(filePath, original, current) ==
  IF original = <<>> /\ current = <<>>
  THEN [filePath |-> filePath, isNewFile |-> FALSE, hunks |-> <<>>,
        additions |-> 0, deletions |-> 0]
  ELSE LET hunks == PatchLoop(DiffLines(original, current), 1, 1, 1)
       IN [filePath |-> filePath,
           isNewFile |-> (original = <<>> /\ current # <<>>),
           hunks |-> hunks,
           additions |-> Len(SelectSeq(hunks, LAMBDA h : h.type = "added")),
           deletions |-> Len(SelectSeq(hunks, LAMBDA h : h.type = "removed"))]

\* the texts of the lines
LineTexts == {<<"x">>, <<"y">>}

\* the sequences of at most n lines that a newline ends
RECURSIVE FullLines(_)
FullLines(n) ==
  IF n = 0 THEN {<<>>}
  ELSE LET shorter == FullLines(n - 1)
       IN shorter \cup {Append(s, Line(t, TRUE)) : s \in shorter, t \in LineTexts}

\* the contents of at most MaxLines lines
DiffContents ==
  FullLines(MaxLines)
    \cup {Append(s, Line(t, FALSE)) : s \in FullLines(MaxLines - 1), t \in LineTexts}

\* a call of computeDiff and what it returned
DiffCall(original, current, result) ==
  [op |-> "computeDiff", path |-> "A", originalContent |-> original,
   currentContent |-> current, result |-> result]

\* result = computeDiff("A", original, current)
ComputeDiffCall(original, current) ==
  /\ modalOp' = DiffCall(original, current, ComputeFileDiff("A", original, current))
  /\ UNCHANGED <<snapshots, selectedIndex, fileList, filePickerOpen, filePickerIndex>>

NextDiff ==
  /\ \E o \in DiffContents : \E c \in DiffContents : ComputeDiffCall(o, c)
  /\ UNCHANGED viewVars
  /\ UNCHANGED uiVars

SpecDiff == InitLedger /\ [][NextDiff]_vars


\* C26 (as claimed): computeDiff reports isNewFile exactly when the baseline
\* is the empty string and the current content is not; of two empty contents
\* it returns no line, zero additions and zero deletions and isNewFile false;
\* and of an empty baseline and a non-empty current content every line it
\* returns is of type added.
C26_NewFileIsAllAdded ==
  modalOp.op = "computeDiff" =>
    LET original == modalOp.originalContent
        current == modalOp.currentContent
        result == modalOp.result
    IN /\ result.isNewFile <=> (original = <<>> /\ current # <<>>)
       /\ (original = <<>> /\ current = <<>>) =>
            /\ result.hunks = <<>>
            /\ result.additions = 0
            /\ result.deletions = 0
            /\ ~result.isNewFile
       /\ (original = <<>> /\ current # <<>>) =>
            \A k \in 1..Len(result.hunks) : result.hunks[k].type = "added"

----------------------------------------------------------------------------
(* The list picker (createPickerHandler).  A row of the rendered box is     *)
(* kept by what it shows: its kind, the id of the item it shows and whether *)
(* that item is under the cursor.  The box is rendered at a width of two or *)
(* more columns, which only cuts and pads the text of a row.                *)

MaxItems == 17

\* tui.height ?? 40
DefaultTermHeight == 40
\* Math.max(20, ...)
MinTargetHeight == 20

\* const targetHeight = Math.max(20, Math.floor(termHeight * 0.75))
TargetHeight(height) ==
  LET termHeight == IF height = Undef THEN DefaultTermHeight ELSE height
  IN Max(MinTargetHeight, (termHeight * 3) \div 4)

NoItem == [id |-> 0, description |-> ""]

Row(kind, id, selected) == [kind |-> kind, id |-> id, selected |-> selected]

\* a mutation of ItemAt: the first item, whatever the index
ItemAt_First(list, index) ==
  IF Len(list) > 0 THEN list[1] ELSE NoItem

\* items[index], NoItem for undefined
ItemAt(list, index) ==
  IF index >= 0 /\ index < Len(list) THEN list[index + 1] ELSE NoItem

\* const availableHeight = targetHeight - headerLines - borderLines
PickerAvailableHeight(targetHeight) == targetHeight - 2 - 2

\* adjust scroll offset to keep cursor visible
PickerAdjustScroll(cursor, scroll, availableHeight) ==
  IF cursor < scroll THEN cursor
  ELSE IF cursor >= scroll + availableHeight THEN cursor - availableHeight + 1
  ELSE scroll

\* the loop over the visible items: the item's line, and its description line
\* if it has a description
RECURSIVE PickerItemRows(_, _, _, _)
PickerItemRows(list, i, visibleEnd, cursor) ==
  IF i >= visibleEnd THEN <<>>
  ELSE LET item == ItemAt(list, i)
       IN <<Row("item", item.id, i = cursor)>>
            \o (IF item.description # "" THEN <<Row("description", item.id, FALSE)>>
                ELSE <<>>)
            \o PickerItemRows(list, i + 1, visibleEnd, cursor)

\* the content lines: the title, an empty line, and the items or "No items"
PickerContent(list, cursor, scroll, targetHeight) ==
  <<Row("title", 0, FALSE), Row("blank", 0, FALSE)>>
    \o (IF Len(list) = 0 THEN <<Row("noItems", 0, FALSE)>>
        ELSE PickerItemRows(list, scroll,
               Min(scroll + PickerAvailableHeight(targetHeight), Len(list)), cursor))

\* while (output.length < limit) output.push(emptyLine())
RECURSIVE PadRows(_, _)
PadRows(output, limit) ==
  IF Len(output) < limit THEN PadRows(Append(output, Row("empty", 0, FALSE)), limit)
  ELSE output

\* the bordered output: top border, content, padding, help line, bottom border
PickerOutput(list, cursor, scroll, targetHeight) ==
  PadRows(<<Row("top", 0, FALSE)>> \o PickerContent(list, cursor, scroll, targetHeight),
          targetHeight - 2)
    \o <<IF Len(list) > 0 THEN Row("help", 0, FALSE) ELSE Row("empty", 0, FALSE)>>
    \o <<Row("bottom", 0, FALSE)>>

\* a call of the picker: the token handed in, the value returned, the rows
\* rendered and the callbacks called, in order
PickerCall(op, data, returned, output, calls) ==
  [op |-> op, data |-> data, returned |-> returned, output |-> output, calls |-> calls]

Callback(name, item) == [name |-> name, item |-> item]

\* render(width)
PickerRender ==
  LET targetHeight == TargetHeight(tuiHeight)
      scroll == IF Len(items) = 0 THEN pickerScrollOffset
                ELSE PickerAdjustScroll(cursorIndex, pickerScrollOffset,
                                        PickerAvailableHeight(targetHeight))
  IN /\ pickerScrollOffset' = scroll
     /\ pickerOp' = PickerCall("render", "", FALSE,
                               PickerOutput(items, cursorIndex, scroll, targetHeight), <<>>)
     /\ UNCHANGED <<items, cursorIndex, hasOnDismiss>>

\* the items the host's onDismiss removes; it refuses the others
RemovableIds == {1, 2, 3, MaxItems}

\* callbacks.onDismiss(item)
OnDismiss(item) == item.id \in RemovableIds

\* items.splice(index, 1)
Splice(list, index) ==
  IF index >= 0 /\ index < Len(list)
  THEN SubSeq(list, 1, index) \o SubSeq(list, index + 2, Len(list))
  ELSE list

\* a mutation of PickerStepCursor: the cursor wraps around at both ends
PickerStepCursor_Wrap(cursor, delta, length) == (cursor + delta + length) % length

\* cursorIndex++ unless on the last item, cursorIndex-- unless on the first
PickerStepCursor(cursor, delta, length) ==
  IF delta = 1 THEN (IF cursor < length - 1 THEN cursor + 1 ELSE cursor)
  ELSE (IF cursor > 0 THEN cursor - 1 ELSE cursor)

\* a mutation of PickerClampCursor: the cursor stays where it was
PickerClampCursor_Keep(cursor, length) == cursor

\* if (cursorIndex >= items.length) cursorIndex = items.length - 1
PickerClampCursor(cursor, length) ==
  IF cursor >= length THEN length - 1 ELSE cursor

\* handleInput(data)
PickerHandleInput(data) ==
  IF Len(items) = 0
  THEN /\ pickerOp' = IF data \in {"q", "escape"}
                      THEN PickerCall("handleInput", data, TRUE, <<>>,
                                      <<Callback("onCancel", NoItem)>>)
                      ELSE PickerCall("handleInput", data, FALSE, <<>>, <<>>)
       /\ UNCHANGED <<items, cursorIndex, pickerScrollOffset, hasOnDismiss>>
  ELSE IF data \in {"j", "down"}
  THEN /\ cursorIndex' = PickerStepCursor(cursorIndex, 1, Len(items))
       /\ pickerOp' = PickerCall("handleInput", data, TRUE, <<>>,
                                 <<Callback("requestRender", NoItem)>>)
       /\ UNCHANGED <<items, pickerScrollOffset, hasOnDismiss>>
  ELSE IF data \in {"k", "up"}
  THEN /\ cursorIndex' = PickerStepCursor(cursorIndex, -1, Len(items))
       /\ pickerOp' = PickerCall("handleInput", data, TRUE, <<>>,
                                 <<Callback("requestRender", NoItem)>>)
       /\ UNCHANGED <<items, pickerScrollOffset, hasOnDismiss>>
  ELSE IF data = "enter"
  THEN /\ pickerOp' = PickerCall("handleInput", data, TRUE, <<>>,
                                 <<Callback("onSelect", ItemAt(items, cursorIndex))>>)
       /\ UNCHANGED <<items, cursorIndex, pickerScrollOffset, hasOnDismiss>>
  ELSE IF data = "d" /\ hasOnDismiss
  THEN LET item == ItemAt(items, cursorIndex)
           removed == OnDismiss(item)
           rest == Splice(items, cursorIndex)
       IN IF ~removed
          THEN /\ pickerOp' = PickerCall("handleInput", data, TRUE, <<>>,
                                         <<Callback("onDismiss", item)>>)
               /\ UNCHANGED <<items, cursorIndex, pickerScrollOffset, hasOnDismiss>>
          ELSE IF Len(rest) = 0
          THEN /\ items' = rest
               /\ pickerOp' = PickerCall("handleInput", data, TRUE, <<>>,
                                <<Callback("onDismiss", item), Callback("onCancel", NoItem)>>)
               /\ UNCHANGED <<cursorIndex, pickerScrollOffset, hasOnDismiss>>
          ELSE /\ items' = rest
               /\ cursorIndex' = PickerClampCursor(cursorIndex, Len(rest))
               /\ pickerOp' = PickerCall("handleInput", data, TRUE, <<>>,
                                <<Callback("onDismiss", item),
                                  Callback("requestRender", NoItem)>>)
               /\ UNCHANGED <<pickerScrollOffset, hasOnDismiss>>
  ELSE IF data \in {"q", "escape"}
  THEN /\ pickerOp' = PickerCall("handleInput", data, TRUE, <<>>,
                                 <<Callback("onCancel", NoItem)>>)
       /\ UNCHANGED <<items, cursorIndex, pickerScrollOffset, hasOnDismiss>>
  ELSE /\ pickerOp' = PickerCall("handleInput", data, FALSE, <<>>, <<>>)
       /\ UNCHANGED <<items, cursorIndex, pickerScrollOffset, hasOnDismiss>>

\* the list of n items, those with an id in described having a description
PickerList(n, described) ==
  [k \in 1..n |-> [id |-> k, description |-> IF k \in described THEN "d" ELSE ""]]

\* the lists a picker is opened on: empty, short, and as long as and longer
\* than the window of a terminal of 24 rows; no item, one item or every item
\* with a description
PickerLists ==
  {PickerList(n, described) :
     n \in {0, 3, MaxItems - 1, MaxItems},
     described \in {{}, {2}, 1..MaxItems}}

\* tui.height: none, or a terminal of 24 rows
TermHeights == {Undef, 24}

\* the tokens: the keys the picker knows, under both of their names, and one
\* it does not
PickerTokens == {"j", "down", "k", "up", "enter", "d", "q", "escape", "x"}

\* createPickerHandler(items, tui, theme, keyUtils, callbacks)
InitPicker ==
  /\ \E list \in PickerLists : items = list
  /\ \E height \in TermHeights : tuiHeight = height
  /\ hasOnDismiss \in BOOLEAN
  /\ cursorIndex = 0
  /\ pickerScrollOffset = 0
  /\ pickerOp = PickerCall("new", "", FALSE, <<>>, <<>>)
  /\ OverlayIdle
  /\ InitModal
  /\ ViewIdle

NextPicker ==
  /\ \/ PickerRender
     \/ \E data \in PickerTokens : PickerHandleInput(data)
  /\ UNCHANGED <<tuiHeight, overlayVars, modalVars, viewVars>>

SpecPicker == InitPicker /\ [][NextPicker]_vars


----------------------------------------------------------------------------
(* Claims about the list picker *)

\* C28 (as claimed): render of the list picker returns exactly
\* max(20, floor(terminalHeight * 0.75)) rows, terminalHeight 40 when the
\* terminal gives none, for every item list: empty, shorter or longer than the
\* window, with or without descriptions; the first row is the top border and
\* the last row the bottom border.
C28_PickerRowCount ==
  pickerOp.op = "render" =>
    /\ Len(pickerOp.output) = TargetHeight(tuiHeight)
    /\ pickerOp.output[1].kind = "top"
    /\ pickerOp.output[Len(pickerOp.output)].kind = "bottom"


\* the names of the callbacks a call made
CalledNames(call) == {call.calls[k].name : k \in 1..Len(call.calls)}

\* C29: after every token on a non-empty list the cursor is within
\* 0..items.length-1; down and j raise it by one unless it is on the last item,
\* up and k lower it by one unless it is on the first, and neither wraps
\* around nor touches the list.
C29_PickerCursorInRange ==
  [][/\ Len(items') > 0 => (0 <= cursorIndex' /\ cursorIndex' <= Len(items') - 1)
     /\ (pickerOp'.op = "handleInput" /\ Len(items) > 0) =>
          /\ pickerOp'.data \in {"j", "down"} =>
               /\ cursorIndex' = IF cursorIndex = Len(items) - 1 THEN cursorIndex
                                 ELSE cursorIndex + 1
               /\ items' = items
          /\ pickerOp'.data \in {"k", "up"} =>
               /\ cursorIndex' = IF cursorIndex = 0 THEN 0 ELSE cursorIndex - 1
               /\ items' = items
    ]_vars

\* C29 witness: j was handled and the cursor is on the last of seventeen items
C29_Witness ==
  /\ pickerOp.op = "handleInput"
  /\ pickerOp.data = "j"
  /\ Len(items) = MaxItems
  /\ cursorIndex = Len(items) - 1

\* C30: on a non-empty list, d with an onDismiss callback calls onDismiss with
\* the item at the cursor; when that returns true exactly that item leaves the
\* list, a cursor beyond the new last item moves onto it, and onCancel is
\* called if and only if the list became empty; when it returns false, or
\* without the callback, list and cursor stay and nothing is cancelled.
C30_PickerDismiss ==
  [][(pickerOp'.op = "handleInput" /\ pickerOp'.data = "d" /\ Len(items) > 0) =>
       LET item == items[cursorIndex + 1] IN
       IF hasOnDismiss
       THEN /\ pickerOp'.calls[1] = Callback("onDismiss", item)
            /\ \A k \in 2..Len(pickerOp'.calls) : pickerOp'.calls[k].name # "onDismiss"
            /\ IF OnDismiss(item)
               THEN /\ Len(items') = Len(items) - 1
                    /\ \A k \in 1..Len(items') :
                         items'[k] = IF k <= cursorIndex THEN items[k] ELSE items[k + 1]
                    /\ cursorIndex' = IF Len(items') > 0 /\ cursorIndex > Len(items') - 1
                                      THEN Len(items') - 1 ELSE cursorIndex
                    /\ "onCancel" \in CalledNames(pickerOp') <=> Len(items') = 0
               ELSE /\ items' = items
                    /\ cursorIndex' = cursorIndex
                    /\ "onCancel" \notin CalledNames(pickerOp')
       ELSE /\ items' = items
            /\ cursorIndex' = cursorIndex
            /\ pickerOp'.calls = <<>>
    ]_vars

\* C30 witness: the last of seventeen items was dismissed under the cursor,
\* which moved onto the new last item
C30_Witness ==
  /\ pickerOp.op = "handleInput"
  /\ pickerOp.data = "d"
  /\ Len(pickerOp.calls) = 2
  /\ pickerOp.calls[1] = Callback("onDismiss", [id |-> MaxItems, description |-> ""])
  /\ Len(items) = MaxItems - 1
  /\ cursorIndex = Len(items) - 1


----------------------------------------------------------------------------
(* The review overlay (createOverlayHandler) over a session and the view of *)
(* its selected file.  Its rows are kept like the picker's, by what they    *)
(* show; the diff rows are those the view returns.                          *)

MaxFiles == 15
MaxDiffRows == 14

\* the inner width the overlay is rendered at: width - 4
InnerWidth == MaxWidth

\* a call of the overlay: the token handed in, the rows rendered, whether the
\* call threw, and the callbacks called, in order
OverlayCall(op, data, output, threw, calls) ==
  [op |-> op, data |-> data, output |-> output, threw |-> threw, calls |-> calls]

\* a callback of the overlay's host and the text handed to it
HostCall(name, text) == [name |-> name, text |-> text]

\* modal.getSelectedDiff() of a session: NoDiff for undefined
SelectedDiffOf(snaps, list, selected) ==
  LET selectedPath == IF Len(list) = 0 THEN NoPath
                      ELSE IF selected >= 0 /\ selected < Len(list)
                      THEN list[selected + 1].path
                      ELSE NoPath
  IN IF selectedPath = NoPath \/ ~IsTracked(snaps, selectedPath) THEN NoDiff
     ELSE LET e == snaps[EntryOf(snaps, selectedPath)]
          IN ComputeFileDiff(selectedPath, e.originalContent, e.currentContent)

\* new InlineDiffView(d, mode), replacing the view there was
NewView(d, mode) ==
  LET built == BuildRenderedLines(d, mode) IN
  /\ diff' = d
  /\ highlightFn' = mode
  /\ renderedLines' = built.renderedLines
  /\ lineToHunkIndex' = built.lineToHunkIndex
  /\ scrollOffset' = 0
  /\ cursorLine' = 0
  /\ visualMode' = FALSE
  /\ visualAnchor' = 0
  /\ viewOp' = ViewCall("new", 0, 0, 0, <<>>)

\* a mutation of BuildViewController: a view that exists is kept as it is
BuildViewController_KeepView(snaps, list, selected) ==
  LET d == SelectedDiffOf(snaps, list, selected) IN
  IF d # NoDiff
  THEN /\ IF viewController THEN UNCHANGED viewVars ELSE NewView(d, "sgr")
       /\ viewController' = TRUE
  ELSE NewView(emptyDiff, "none") /\ viewController' = FALSE

\* buildViewController(), in the session the modal call before it left
BuildViewController(snaps, list, selected) ==
  LET d == SelectedDiffOf(snaps, list, selected) IN
  IF d # NoDiff
  THEN NewView(d, "sgr") /\ viewController' = TRUE
  ELSE NewView(emptyDiff, "none") /\ viewController' = FALSE

\* const availableHeight = Math.max(5, targetHeight - 8)
OverlayAvailableHeight(targetHeight) == Max(5, targetHeight - 8)

\* Math.min(Math.round(((scrollOffset + availableHeight) / totalLines) * 100), 100)
ScrollPercent(offset, availableHeight, total) ==
  Min(((offset + availableHeight) * 200 + total) \div (2 * total), 100)

\* the content lines of the file picker mode: a title, an empty line, one
\* line per file, an empty line and the help
FilePickerContent(list, pickerIndex) ==
  <<Row("pickerTitle", 0, FALSE), Row("blank", 0, FALSE)>>
    \o [i \in 1..Len(list) |-> Row("file", i - 1, i - 1 = pickerIndex)]
    \o <<Row("blank", 0, FALSE), Row("pickerHelp", 0, FALSE)>>

\* the content lines of the diff mode: the header bar, a rule, the rows the
\* view returned and the scroll indicator when the view has more rows
DiffContent(selected, hasView, visual, rows, offset, total, availableHeight) ==
  <<Row("header", selected + 1, hasView /\ visual), Row("rule", 0, FALSE)>>
    \o (IF hasView
        THEN [k \in 1..Len(rows) |-> Row("diff", offset + k - 1, FALSE)]
               \o (IF total > availableHeight
                   THEN <<Row("scroll", ScrollPercent(offset, availableHeight, total), FALSE)>>
                   ELSE <<>>)
        ELSE <<>>)

\* the bordered output: top border, content, padding, the help line written
\* over the last line in diff mode, bottom border
OverlayOutput(content, targetHeight, helpLine) ==
  LET padded == PadRows(<<Row("top", 0, FALSE)>> \o content, targetHeight - 1)
      body == IF helpLine THEN [padded EXCEPT ![Len(padded)] = Row("help", 0, FALSE)]
              ELSE padded
  IN Append(body, Row("bottom", 0, FALSE))

\* render(width)
OverlayRender ==
  LET targetHeight == TargetHeight(tuiHeight)
      availableHeight == OverlayAvailableHeight(targetHeight)
  IN /\ IF Len(fileList) = 0
        THEN /\ overlayOp' = OverlayCall("render", "",
                   OverlayOutput(<<Row("noFiles", 0, FALSE), Row("blank", 0, FALSE),
                                   Row("pressEscape", 0, FALSE)>>, targetHeight, FALSE),
                   FALSE, <<>>)
             /\ UNCHANGED viewVars
        ELSE IF filePickerOpen
        THEN /\ overlayOp' = OverlayCall("render", "",
                   OverlayOutput(FilePickerContent(fileList, filePickerIndex),
                                 targetHeight, FALSE),
                   FALSE, <<>>)
             /\ UNCHANGED viewVars
        ELSE IF ~(selectedIndex >= 0 /\ selectedIndex < Len(fileList))
        THEN \* currentFile is undefined: reading currentFile.path throws
             /\ overlayOp' = OverlayCall("render", "", <<>>, TRUE, <<>>)
             /\ UNCHANGED viewVars
        ELSE IF viewController
        THEN /\ Render(InnerWidth, availableHeight)
             /\ overlayOp' = OverlayCall("render", "",
                   OverlayOutput(DiffContent(selectedIndex, TRUE, visualMode, viewOp'.out,
                                             scrollOffset', TotalLines, availableHeight),
                                 targetHeight, TRUE),
                   FALSE, <<>>)
        ELSE /\ overlayOp' = OverlayCall("render", "",
                   OverlayOutput(DiffContent(selectedIndex, FALSE, FALSE, <<>>, 0, 0,
                                             availableHeight),
                                 targetHeight, TRUE),
                   FALSE, <<>>)
             /\ UNCHANGED viewVars
     /\ UNCHANGED <<modalVars, viewController, tuiHeight, pickerVars>>


\* Array.prototype.join("\n") of texts
RECURSIVE JoinLines(_)
JoinLines(texts) ==
  IF Len(texts) = 0 THEN <<>>
  ELSE IF Len(texts) = 1 THEN texts[1]
  ELSE texts[1] \o <<"\n">> \o JoinLines(Tail(texts))

\* the line numbers of the records: newLineNumber ?? oldLineNumber, without
\* the undefined ones
LineNumbersOf(diffLines) ==
  {AnchorOf(diffLines[k]) : k \in 1..Len(diffLines)} \ {Undef}

\* the template ${filePath}:${lineNum}
YankLineText(filePath, lineNum) == <<filePath, ":">> \o NumToString(lineNum)

\* the backquote character and the fence of three backquotes
BACKTICK == "BACKTICK"
FENCE == "FENCE"

\* a mutation of YankBlockText: the range is written even for a single line
YankBlockText_AlwaysRange(filePath, diffLines) ==
  LET lineNumbers == LineNumbersOf(diffLines)
      minLine == CHOOSE n \in lineNumbers : \A m \in lineNumbers : n <= m
      maxLine == CHOOSE n \in lineNumbers : \A m \in lineNumbers : n >= m
      rangeStr == NumToString(minLine) \o <<"-">> \o NumToString(maxLine)
  IN <<BACKTICK, filePath, ":">> \o rangeStr \o <<BACKTICK, "\n", FENCE, "\n">>
       \o JoinLines([k \in 1..Len(diffLines) |-> diffLines[k].content])
       \o <<"\n", FENCE>>

\* the header <filePath>:<range> between backquotes and the fenced block of
\* the selected lines
YankBlockText(filePath, diffLines) ==
  LET lineNumbers == LineNumbersOf(diffLines)
      minLine == CHOOSE n \in lineNumbers : \A m \in lineNumbers : n <= m
      maxLine == CHOOSE n \in lineNumbers : \A m \in lineNumbers : n >= m
      rangeStr == IF minLine = maxLine THEN NumToString(minLine)
                  ELSE NumToString(minLine) \o <<"-">> \o NumToString(maxLine)
  IN <<BACKTICK, filePath, ":">> \o rangeStr \o <<BACKTICK, "\n", FENCE, "\n">>
       \o JoinLines([k \in 1..Len(diffLines) |-> diffLines[k].content])
       \o <<"\n", FENCE>>

\* viewController.getCursorDiffLine(), NoDiff for undefined
CursorDiffLine ==
  IF Len(renderedLines) = 0 THEN NoDiff
  ELSE IF ~(cursorLine >= 0 /\ cursorLine < Len(lineToHunkIndex)) THEN NoDiff
  ELSE IF lineToHunkIndex[cursorLine + 1] = -1 THEN NoDiff
  ELSE diff.hunks[lineToHunkIndex[cursorLine + 1] + 1]

\* the overlay handled the token and called these callbacks
Handled(data, calls) == overlayOp' = OverlayCall("handleInput", data, <<>>, FALSE, calls)

RequestRender == HostCall("requestRender", <<>>)
Done == HostCall("done", <<>>)

\* a mutation of PickerModeInput: Escape closes the overlay with the picker
PickerModeInput_EscapeIsDone(data) ==
  IF data = "escape"
  THEN CloseFilePicker /\ UNCHANGED <<viewVars, viewController>>
         /\ Handled(data, <<RequestRender, Done>>)
  ELSE IF data \in {"up", "k"}
  THEN FilePickerPrevious /\ UNCHANGED <<viewVars, viewController>>
         /\ Handled(data, <<RequestRender>>)
  ELSE IF data \in {"down", "j"}
  THEN FilePickerNext /\ UNCHANGED <<viewVars, viewController>>
         /\ Handled(data, <<RequestRender>>)
  ELSE IF data = "enter"
  THEN ConfirmFilePickerSelection
         /\ BuildViewController(snapshots', fileList', selectedIndex')
         /\ Handled(data, <<RequestRender>>)
  ELSE UNCHANGED <<modalVars, viewVars, viewController>> /\ Handled(data, <<>>)

\* handleInput(data) while the file picker is open
PickerModeInput(data) ==
  IF data = "escape"
  THEN CloseFilePicker /\ UNCHANGED <<viewVars, viewController>>
         /\ Handled(data, <<RequestRender>>)
  ELSE IF data \in {"up", "k"}
  THEN FilePickerPrevious /\ UNCHANGED <<viewVars, viewController>>
         /\ Handled(data, <<RequestRender>>)
  ELSE IF data \in {"down", "j"}
  THEN FilePickerNext /\ UNCHANGED <<viewVars, viewController>>
         /\ Handled(data, <<RequestRender>>)
  ELSE IF data = "enter"
  THEN ConfirmFilePickerSelection
         /\ BuildViewController(snapshots', fileList', selectedIndex')
         /\ Handled(data, <<RequestRender>>)
  ELSE UNCHANGED <<modalVars, viewVars, viewController>> /\ Handled(data, <<>>)

\* the y token
YankInput(data) ==
  IF ~viewController
  THEN UNCHANGED <<modalVars, viewVars, viewController>> /\ Handled(data, <<>>)
  ELSE IF visualMode
  THEN LET range == GetVisualRange(visualAnchor, cursorLine)
           diffLines == SelectedDiffLoop(diff, lineToHunkIndex, range[1], range[2], <<>>)
           filePath == SelectedFile
       IN IF Len(diffLines) > 0 /\ LineNumbersOf(diffLines) # {}
          THEN /\ ExitVisualMode
               /\ UNCHANGED <<modalVars, viewController>>
               /\ Handled(data, <<HostCall("onPasteToEditor",
                                           YankBlockText(filePath, diffLines)), Done>>)
          ELSE UNCHANGED <<modalVars, viewVars, viewController>> /\ Handled(data, <<>>)
  ELSE LET diffLine == CursorDiffLine
           filePath == SelectedFile
       IN IF diffLine # NoDiff /\ AnchorOf(diffLine) # Undef
          THEN /\ UNCHANGED <<modalVars, viewVars, viewController>>
               /\ Handled(data, <<HostCall("onPasteToEditor",
                                           YankLineText(filePath, AnchorOf(diffLine))),
                                  Done>>)
          ELSE UNCHANGED <<modalVars, viewVars, viewController>> /\ Handled(data, <<>>)

\* viewController?.scrollUp(lines) and viewController?.scrollDown(lines)
ScrollInput(data, up, lines) ==
  /\ IF viewController THEN (IF up THEN ScrollUp(lines) ELSE ScrollDown(lines))
     ELSE UNCHANGED viewVars
  /\ UNCHANGED <<modalVars, viewController>>
  /\ Handled(data, <<RequestRender>>)

\* handleInput(data) in the diff view mode
DiffModeInput(data) ==
  IF data = "escape"
  THEN UNCHANGED <<modalVars, viewVars, viewController>> /\ Handled(data, <<Done>>)
  ELSE IF data = "n"
  THEN SelectNext /\ BuildViewController(snapshots', fileList', selectedIndex')
         /\ Handled(data, <<RequestRender>>)
  ELSE IF data = "p"
  THEN SelectPrevious /\ BuildViewController(snapshots', fileList', selectedIndex')
         /\ Handled(data, <<RequestRender>>)
  ELSE IF data \in {"up", "k"} THEN ScrollInput(data, TRUE, 1)
  ELSE IF data \in {"down", "j"} THEN ScrollInput(data, FALSE, 1)
  ELSE IF data = "ctrl+u" THEN ScrollInput(data, TRUE, 10)
  ELSE IF data = "ctrl+d" THEN ScrollInput(data, FALSE, 10)
  ELSE IF data = "tab"
  THEN OpenFilePicker /\ UNCHANGED <<viewVars, viewController>>
         /\ Handled(data, <<RequestRender>>)
  ELSE IF data = "V"
  THEN IF viewController
       THEN /\ IF visualMode THEN ExitVisualMode ELSE EnterVisualMode
            /\ UNCHANGED <<modalVars, viewController>>
            /\ Handled(data, <<RequestRender>>)
       ELSE UNCHANGED <<modalVars, viewVars, viewController>> /\ Handled(data, <<>>)
  ELSE IF data = "d"
  THEN /\ DismissSelected
       /\ BuildViewController(snapshots', fileList', selectedIndex')
       /\ Handled(data, <<HostCall("onDismiss", <<>>), RequestRender>>
                          \o (IF Len(fileList') = 0 THEN <<Done>> ELSE <<>>))
  ELSE IF data = "y" THEN YankInput(data)
  ELSE UNCHANGED <<modalVars, viewVars, viewController>> /\ Handled(data, <<>>)

\* handleInput(data)
OverlayHandleInput(data) ==
  /\ IF filePickerOpen THEN PickerModeInput(data) ELSE DiffModeInput(data)
  /\ UNCHANGED <<tuiHeight, pickerVars>>

\* the paths of the files under review
FileNames ==
  <<"f01", "f02", "f03", "f04", "f05", "f06", "f07", "f08", "f09", "f10",
    "f11", "f12", "f13", "f14", "f15", "f16", "f17", "f18">>

\* a new file of n lines: more rows than the overlay shows at once
LongContent(n) == [k \in 1..n |-> Line(<<"x">>, TRUE)]

\* the ledger the overlay is opened on: n changed files, each with one line
\* replaced, or each a new file of MaxDiffRows lines
ReviewLedger(n, long) ==
  [k \in 1..n |->
     [path |-> FileNames[k],
      originalContent |-> IF long THEN <<>> ELSE <<Line(<<"x">>, TRUE)>>,
      currentContent |-> IF long THEN LongContent(MaxDiffRows)
                         ELSE <<Line(<<"y">>, TRUE)>>]]

\* no file, one long file, two short files, and more files than the box has
\* rows for on a terminal of 24 rows
ReviewLedgers ==
  {ReviewLedger(0, FALSE), ReviewLedger(1, TRUE), ReviewLedger(2, FALSE),
   ReviewLedger(MaxFiles, FALSE)}

\* new DiffReviewModal(diffState) and createOverlayHandler(modal, tui, ...)
\* on one of the ledgers and one of the terminal heights
InitOverlayOn(ledgers, heights) ==
  /\ \E ledger \in ledgers :
       LET r == RefreshOf(ledger, 0)
           d == SelectedDiffOf(ledger, r.fileList, r.selectedIndex)
       IN /\ snapshots = ledger
          /\ fileList = r.fileList
          /\ selectedIndex = r.selectedIndex
          /\ IF d # NoDiff THEN Constructed(d, "sgr") /\ viewController = TRUE
             ELSE ViewIdle /\ viewController = FALSE
  /\ filePickerOpen = FALSE
  /\ filePickerIndex = 0
  /\ modalOp = ModalCall("new", NoPath, FALSE)
  /\ \E height \in heights : tuiHeight = height
  /\ overlayOp = OverlayCall("new", "", <<>>, FALSE, <<>>)
  /\ PickerIdle

InitOverlay == InitOverlayOn(ReviewLedgers, TermHeights)

\* the tokens that walk forward through the files and the rows, open and
\* leave the file picker and close the overlay, and one no mode knows
ListTokens == {"escape", "n", "j", "ctrl+d", "tab", "enter", "x"}

NextOverlayList ==
  \/ OverlayRender
  \/ \E data \in ListTokens : OverlayHandleInput(data)

SpecOverlayList == InitOverlay /\ [][NextOverlayList]_vars

\* C27 (as claimed): render of the overlay returns exactly
\* max(20, floor(terminalHeight * 0.75)) rows, terminalHeight 40 when the
\* terminal gives none, in every mode (empty list, diff view, file picker),
\* for any number of changed files and any diff length; the first row is the
\* top border and the last row the bottom border.
C27_OverlayRowCount ==
  overlayOp.op = "render" =>
    /\ ~overlayOp.threw
    /\ Len(overlayOp.output) = TargetHeight(tuiHeight)
    /\ overlayOp.output[1].kind = "top"
    /\ overlayOp.output[Len(overlayOp.output)].kind = "bottom"


\* the tokens the list picker consumes on a list of this length
PickerConsumes(data, length, dismissable) ==
  IF length = 0 THEN data \in {"q", "escape"}
  ELSE \/ data \in {"up", "down", "j", "k", "enter", "q", "escape"}
       \/ data = "d" /\ dismissable

\* C31: Enter on a non-empty list calls onSelect once, with the item at the
\* cursor, and no other callback, and leaves cursor, scroll offset and list as
\* they are; Enter on an empty list calls nothing; and handleInput returns
\* true exactly for the tokens it consumes: up, down, j, k, Enter, q, Escape
\* and (with a dismiss callback) d on a non-empty list, q and Escape on an
\* empty one.
C31_PickerEnterAndReturn ==
  [][pickerOp'.op = "handleInput" =>
       /\ (pickerOp'.data = "enter" /\ Len(items) > 0) =>
            /\ pickerOp'.calls = <<Callback("onSelect", items[cursorIndex + 1])>>
            /\ UNCHANGED <<cursorIndex, pickerScrollOffset, items>>
       /\ (pickerOp'.data = "enter" /\ Len(items) = 0) => pickerOp'.calls = <<>>
       /\ pickerOp'.returned <=> PickerConsumes(pickerOp'.data, Len(items), hasOnDismiss)
    ]_vars

\* C31 witness: Enter was handled with the cursor on the third of three items
C31_Witness ==
  /\ pickerOp.op = "handleInput"
  /\ pickerOp.data = "enter"
  /\ pickerOp.returned
  /\ Len(items) = 3
  /\ cursorIndex = 2
  /\ pickerOp.calls = <<Callback("onSelect", items[3])>>

\* C39 (as claimed): after every render of a non-empty list the cursor item is
\* inside the window, scrollOffset <= cursorIndex < scrollOffset +
\* availableHeight with availableHeight = targetHeight - 4, and scrollOffset
\* is at most max(0, items.length - availableHeight), after any up and down
\* tokens and dismissals.
C39_PickerWindow ==
  (pickerOp.op = "render" /\ Len(items) > 0) =>
    LET availableHeight == TargetHeight(tuiHeight) - 4 IN
    /\ pickerScrollOffset <= cursorIndex
    /\ cursorIndex < pickerScrollOffset + availableHeight
    /\ pickerScrollOffset <= Max(0, Len(items) - availableHeight)


\* C40: moveCursor, setCursor, enterVisualMode and exitVisualMode never
\* change the scroll offset, and exitVisualMode changes nothing but the
\* visual-mode flag: cursor, scroll offset, the retained anchor, the diff
\* and the rendered rows are as before and the flag is off.
C40_CursorOpsKeepScroll ==
  [][/\ viewOp'.op \in {"moveCursor", "setCursor", "enterVisualMode", "exitVisualMode"}
          => scrollOffset' = scrollOffset
     /\ viewOp'.op = "exitVisualMode"
          => /\ ~visualMode'
             /\ UNCHANGED <<cursorLine, scrollOffset, visualAnchor, diff,
                            renderedLines, lineToHunkIndex>>
    ]_vars

\* visual mode was left on a scrolled view with the anchor below the top
C40_Witness ==
  /\ viewOp.op = "exitVisualMode"
  /\ ~visualMode
  /\ visualAnchor > 0
  /\ scrollOffset > 0
  /\ cursorLine # visualAnchor


----------------------------------------------------------------------------
(* SpecHunks: an InlineDiffView loaded with what computeDiff returns.  The   *)
(* two contents are taken from one file of distinct lines: each line is in   *)
(* both contents, only in the old one or only in the new one.  A behaviour   *)
(* starts with the two contents in hand and loads their diff.                *)

MaxFileLines == 9
MaxChanges == 3

Alphabet == <<"a", "b", "c", "d", "e", "f", "g", "h", "i", "j", "k", "l">>

\* which side each line of the file is on, with at most MaxChanges changes
LineMarks ==
  {m \in [1..MaxFileLines -> {"both", "old", "new"}] :
     Cardinality({k \in 1..MaxFileLines : m[k] # "both"}) <= MaxChanges}

\* the lines of one side, in the order of the file
RECURSIVE SideLoop(_, _, _)
SideLoop(marks, side, k) ==
  IF k > MaxFileLines THEN <<>>
  ELSE IF marks[k] \in {"both", side}
       THEN <<Line(<<Alphabet[k]>>, TRUE)>> \o SideLoop(marks, side, k + 1)
       ELSE SideLoop(marks, side, k + 1)

\* the number of the patch hunk that the k-th edit is in
HunkNumber(edits, k) ==
  Cardinality({m \in 1..k : InHunk(edits, m) /\ (m = 1 \/ ~InHunk(edits, m - 1))})

\* for every record computeDiff returns, the number of the hunk whose lines
\* it was made from
RECURSIVE RecordHunks(_, _)
RecordHunks(edits, k) ==
  IF k > Len(edits) THEN <<>>
  ELSE IF ~InHunk(edits, k) THEN RecordHunks(edits, k + 1)
  ELSE [n \in 1..Len(PatchLines(edits[k])) |-> HunkNumber(edits, k)]
         \o RecordHunks(edits, k + 1)

\* view.setDiff(computeDiff("A", original, current))
LoadComputedDiff(original, current) ==
  LET result == ComputeFileDiff("A", original, current) IN
  /\ modalOp' = DiffCall(original, current, result)
  /\ SetDiff(result)
  /\ UNCHANGED <<snapshots, selectedIndex, fileList, filePickerOpen, filePickerIndex>>

\* the two contents the host holds before it asks for their diff
HostContents(original, current) ==
  [op |-> "contents", path |-> "A", originalContent |-> original,
   currentContent |-> current, result |-> NoDiff]

InitHunks ==
  /\ Constructed(emptyDiff, "sgr")
  /\ \E marks \in LineMarks :
       modalOp = HostContents(SideLoop(marks, "old", 1), SideLoop(marks, "new", 1))
  /\ snapshots = <<>>
  /\ selectedIndex = 0
  /\ fileList = <<>>
  /\ filePickerOpen = FALSE
  /\ filePickerIndex = 0
  /\ UiIdle

NextHunks ==
  /\ LoadComputedDiff(modalOp.originalContent, modalOp.currentContent)
  /\ UNCHANGED uiVars

SpecHunks == InitHunks /\ [][NextHunks]_vars

\* the hunk of the record behind the i-th row of the view
RowHunk(i) ==
  RecordHunks(DiffLines(modalOp.originalContent, modalOp.currentContent), 1)
    [lineToHunkIndex[i] + 1]

\* C33 (as claimed): in the view of every diff computeDiff produces, a
\* separator row stands only between the last record of one hunk and the
\* first record of another hunk: never between two records of the same
\* hunk, and never as the first or the last row.
C33_SeparatorsOnlyBetweenHunks ==
  modalOp.op = "computeDiff" =>
    \A i \in 1..Len(lineToHunkIndex) :
      lineToHunkIndex[i] = -1 =>
        /\ 1 < i
        /\ i < Len(lineToHunkIndex)
        /\ lineToHunkIndex[i - 1] # -1
        /\ lineToHunkIndex[i + 1] # -1
        /\ RowHunk(i - 1) # RowHunk(i + 1)


----------------------------------------------------------------------------
(* SpecOverlay: the overlay driven by every token it knows, on no file and  *)
(* on three files: one that lost its only line, one whose line was replaced *)
(* and one that is new.                                                     *)

ThreeFileLedger ==
  <<[path |-> FileNames[1], originalContent |-> <<Line(<<"x">>, TRUE)>>,
     currentContent |-> <<>>],
    [path |-> FileNames[2], originalContent |-> <<Line(<<"x">>, TRUE)>>,
     currentContent |-> <<Line(<<"y">>, TRUE)>>],
    [path |-> FileNames[3], originalContent |-> <<>>,
     currentContent |-> <<Line(<<"y">>, TRUE)>>]>>

OverlayLedgers == {<<>>, ThreeFileLedger}

\* every token of the two modes (k and j stand for the arrow keys too) and
\* one no mode knows
OverlayTokens ==
  {"escape", "n", "p", "k", "j", "ctrl+u", "ctrl+d", "tab", "V", "d", "y",
   "enter", "x"}

InitReview == InitOverlayOn(OverlayLedgers, {24})

NextOverlay ==
  \/ OverlayRender
  \/ \E data \in OverlayTokens : OverlayHandleInput(data)

SpecOverlay == InitReview /\ [][NextOverlay]_vars

----------------------------------------------------------------------------
(* SpecYank: the overlay on one file whose diff has two hunks, and so a     *)
(* separator row, a removed and an added line, driven by the tokens that    *)
(* move the cursor, select and yank.                                        *)

\* a file of 2 * ContextSize + 1 lines after a first line that is then
\* removed, and the same file with a line put after the last line
TwoHunkCommon == [k \in 1..(2 * ContextSize + 1) |-> Line(<<Alphabet[k]>>, TRUE)]
TwoHunkOriginal == <<Line(<<"r">>, TRUE)>> \o TwoHunkCommon
TwoHunkCurrent == TwoHunkCommon \o <<Line(<<"q">>, TRUE)>>

TwoHunkLedger ==
  <<[path |-> FileNames[1], originalContent |-> TwoHunkOriginal,
     currentContent |-> TwoHunkCurrent]>>

YankTokens == {"k", "j", "ctrl+d", "V", "y"}

InitYank == InitOverlayOn({TwoHunkLedger}, {24})

NextYank ==
  \/ OverlayRender
  \/ \E data \in YankTokens : OverlayHandleInput(data)

SpecYank == InitYank /\ [][NextYank]_vars


\* the rows of the view from lo to hi that show a record of the diff
RecordRows(lo, hi) ==
  SelectSeq([k \in 1..(hi - lo + 1) |-> lo + k - 1],
            LAMBDA row : row < Len(lineToHunkIndex) /\ lineToHunkIndex[row + 1] # -1)

\* the record behind a row
RecordAt(row) == diff.hunks[lineToHunkIndex[row + 1] + 1]

\* new line number if present, else old
LineNumberOf(record) ==
  IF record.newLineNumber # Undef THEN record.newLineNumber ELSE record.oldLineNumber

\* the block the claim describes for these rows of this file
ExpectedBlock(path, rows) ==
  LET numbers == {LineNumberOf(RecordAt(rows[k])) : k \in 1..Len(rows)}
      lowest == CHOOSE n \in numbers : \A m \in numbers : n <= m
      highest == CHOOSE n \in numbers : \A m \in numbers : m <= n
      header == <<BACKTICK, path, ":">> \o NumToString(lowest)
                  \o (IF lowest = highest THEN <<>>
                      ELSE <<"-">> \o NumToString(highest))
                  \o <<BACKTICK>>
  IN header \o <<"\n", FENCE, "\n">>
       \o JoinLines([k \in 1..Len(rows) |-> RecordAt(rows[k]).content])
       \o <<"\n", FENCE>>

\* C32: outside visual mode y on a record row hands "<path>:<lineNumber>"
\* (new line number if present, else old) to onPasteToEditor and calls done();
\* in visual mode it hands over the block (header <path>:<min>-<max>, or
\* <path>:<line> when min = max, then the fenced raw texts of the selected
\* records joined by newlines), leaves visual mode and calls done(); with the
\* cursor on a separator, or no record row in the visual range, it calls
\* neither.
C32_Yank ==
  [][(overlayOp'.op = "handleInput" /\ overlayOp'.data = "y" /\ viewController) =>
       LET path == fileList[selectedIndex + 1].path
           lo == Min(visualAnchor, cursorLine)
           hi == Max(visualAnchor, cursorLine)
           rows == IF visualMode THEN RecordRows(lo, hi)
                   ELSE RecordRows(cursorLine, cursorLine)
       IN IF Len(rows) = 0
          THEN overlayOp'.calls = <<>> /\ UNCHANGED <<viewVars, modalVars>>
          ELSE IF visualMode
          THEN /\ overlayOp'.calls =
                    <<HostCall("onPasteToEditor", ExpectedBlock(path, rows)), Done>>
               /\ ~visualMode'
               /\ UNCHANGED <<cursorLine, scrollOffset, diff, modalVars>>
          ELSE /\ overlayOp'.calls =
                    <<HostCall("onPasteToEditor",
                               <<path, ":">> \o NumToString(LineNumberOf(RecordAt(cursorLine)))),
                      Done>>
               /\ UNCHANGED <<viewVars, modalVars>>
    ]_vars

\* C32 witness: the rows from the last record of the first hunk over the
\* separator to the first record of the second hunk were yanked
C32_Witness ==
  /\ overlayOp.op = "handleInput"
  /\ overlayOp.data = "y"
  /\ ~visualMode
  /\ overlayOp.calls =
       <<HostCall("onPasteToEditor",
                  <<BACKTICK, "f01", ":", "3", "-", "5", BACKTICK, "\n", FENCE, "\n",
                    "c", "\n", "e", "\n", FENCE>>),
         Done>>


\* the tokens the file picker mode of the overlay acts on
FilePickerKeys == {"escape", "up", "k", "down", "j", "enter"}

\* C34: while the file picker is open, Escape closes it without calling
\* done() and leaves selectedIndex and the view's cursor, scroll offset and
\* visual state as they are, and every token other than Escape, up/k, down/j
\* and Enter (n, p, d, y, V, Tab, Ctrl+U, Ctrl+D, ...) leaves ledger, session
\* and view unchanged and calls no callback.
C34_PickerModeTokens ==
  [][(filePickerOpen /\ overlayOp'.op = "handleInput") =>
       /\ overlayOp'.data = "escape" =>
            /\ ~filePickerOpen'
            /\ \A k \in 1..Len(overlayOp'.calls) : overlayOp'.calls[k] # Done
            /\ UNCHANGED <<selectedIndex, snapshots, fileList, viewVars, viewController>>
       /\ overlayOp'.data \notin FilePickerKeys =>
            /\ overlayOp'.calls = <<>>
            /\ UNCHANGED <<modalVars, viewVars, viewController>>
    ]_vars

\* C34 witness: d was handled with the picker open over three files, the
\* view behind it scrolled and in visual mode
C34_Witness ==
  /\ overlayOp.op = "handleInput"
  /\ overlayOp.data = "d"
  /\ filePickerOpen
  /\ Len(fileList) = 3
  /\ visualMode
  /\ scrollOffset > 0
  /\ overlayOp.calls = <<>>


\* a list without its entry at a 0-based index
WithoutIndex(list, index) ==
  SubSeq(list, 1, index) \o SubSeq(list, index + 2, Len(list))

\* C35: in diff mode with at least one file listed, a d token removes
\* exactly the selected file from the list, and it calls done() exactly when
\* the list is empty after it; so of N consecutive d tokens on N files the
\* last one closes the overlay and none before it does.
C35_DismissClosesOnLast ==
  [][(~filePickerOpen /\ Len(fileList) >= 1
        /\ overlayOp'.op = "handleInput" /\ overlayOp'.data = "d") =>
       /\ selectedIndex < Len(fileList)
       /\ fileList' = WithoutIndex(fileList, selectedIndex)
       /\ (\E k \in 1..Len(overlayOp'.calls) : overlayOp'.calls[k] = Done)
            <=> Len(fileList') = 0
    ]_vars

\* C35 witness: the d that dismissed the last of three files closed the
\* overlay
C35_Witness ==
  /\ overlayOp.op = "handleInput"
  /\ overlayOp.data = "d"
  /\ Len(snapshots) = 3
  /\ Len(fileList) = 0
  /\ overlayOp.calls = <<HostCall("onDismiss", <<>>), RequestRender, Done>>


\* the callback was called while the token was handled
Called(call) == \E k \in 1..Len(overlayOp'.calls) : overlayOp'.calls[k] = call

\* C37 (as claimed): onDismiss is called only for a d token whose
\* modal.dismissSelected() returned true, and a d token received while the
\* file list is empty calls no callback.
C37_OnDismissOnlyAfterDismissal ==
  [][overlayOp'.op = "handleInput" =>
       /\ Called(HostCall("onDismiss", <<>>)) =>
            /\ overlayOp'.data = "d"
            /\ modalOp'.op = "dismissSelected"
            /\ modalOp'.result
       /\ (overlayOp'.data = "d" /\ Len(fileList) = 0) => overlayOp'.calls = <<>>
    ]_vars


\* C38 (as claimed): whenever the file list is empty (render shows that
\* there is no file to review and that Escape closes), one Escape token
\* calls done(), whatever tokens were handled before it.
C38_EscapeClosesEmptyOverlay ==
  [][(Len(fileList) = 0 /\ overlayOp'.op = "handleInput" /\ overlayOp'.data = "escape")
       => Called(Done)
    ]_vars


\* the diff the ledger holds for the file selected in the next state
NextSelectedDiff ==
  LET path == fileList'[selectedIndex' + 1].path
      entry == CHOOSE e \in Range(snapshots') : e.path = path
  IN ComputeFileDiff(path, entry.originalContent, entry.currentContent)

\* C36: after every token that changes or re-confirms the selected file (n, p
\* and d in diff mode, Enter in picker mode) the view is a new view of the
\* diff the ledger now holds for the selected file, with cursor 0, scroll
\* offset 0 and visual mode off; there is no view exactly when no file is
\* selected; and after every token the view is the view of the selected file.
C36_ViewFollowsSelection ==
  [][overlayOp'.op = "handleInput" =>
       /\ viewController' <=> Len(fileList') > 0
       /\ viewController' =>
            /\ selectedIndex' < Len(fileList')
            /\ diff' = NextSelectedDiff
       /\ ((~filePickerOpen /\ overlayOp'.data \in {"n", "p", "d"})
             \/ (filePickerOpen /\ overlayOp'.data = "enter")) =>
            /\ renderedLines' = BuildRenderedLines(diff', highlightFn').renderedLines
            /\ cursorLine' = 0
            /\ scrollOffset' = 0
            /\ ~visualMode'
    ]_vars

\* C36 witness: Enter in the picker selected the third of three files and
\* its diff is in the view
C36_Witness ==
  /\ overlayOp.op = "handleInput"
  /\ overlayOp.data = "enter"
  /\ modalOp.op = "confirmFilePickerSelection"
  /\ Len(fileList) = 3
  /\ selectedIndex = 2
  /\ viewController
  /\ diff.filePath = "f03"
  /\ cursorLine = 0
  /\ ~visualMode

====
